---- MODULE Spec2Model ----
(***************************************************************************)
(* Model of the outgoing sync machinery and of the key resolver of the     *)
(* Turtl core:                                                             *)
(*   - the sync_outgoing table of SyncRecords (the sync queue),            *)
(*   - SyncOutgoing::run_sync       (src/src/sync/outgoing.rs),            *)
(*   - FileSyncOutgoing::run_sync, get_next_outgoing_file_sync and         *)
(*     upload_file                  (src/src/sync/files/outgoing.rs),      *)
(*   - Turtl::find_model_key        (src/src/turtl.rs) and                 *)
(*     Note::get_key_search         (src/src/models/note.rs), applied to   *)
(*     notes, keychains and profiles drawn from bounded sets (KeySpec).    *)
(* The file syncer's tick is modelled step by step (one action per call    *)
(* to a collaborator that can block or fail), the main thread appends      *)
(* records concurrently.                                                   *)
(***************************************************************************)
EXTENDS Integers, Sequences, FiniteSets, TLC

\* ------------------------------------------------------------------ bounds
\* Number of records the main thread appends in one behaviour.
MaxId == 2
\* Largest local file, in whole buffers.
MaxChunks == 2

\* Longest keys list of a note handed to the key resolver.
MaxRefs == 2

\* --------------------------------------------------------------- constants
\* let mut buf = [0; 4096];
BufSize == 4096
\* Failure count past which handle_failed_sync freezes a record.
MaxAllowedFailures == 1

Items == {"A", "B"}
\* (type, action) of the records the main thread appends.
RecordKinds == {<<"Note", "add">>, <<"File", "add">>, <<"File", "edit">>,
                <<"FileOutgoing", "add">>}
\* Sizes of the local attachment files: empty, whole buffers, and a tail.
FileSizes == {k * BufSize : k \in 0..MaxChunks}
               \cup {k * BufSize + 1 : k \in 0..(MaxChunks - 1)}

VARIABLES
    queue,        \* the sync_outgoing table: a set of SyncRecords, unique ids
    next_id,      \* the id the next appended record gets
    fpc,          \* where the file syncer is inside run_sync / upload_file
    cur,          \* upload_file's `sync` (an option: {} or {record})
    file_len,     \* size of the file opened by the upload closure
    remaining,    \* bytes of that file not yet read
    calls,        \* API calls of the current upload attempt, in order
    upload_res,   \* result of the upload closure: "none", "Ok" or the error
    sync_ids,     \* UploadRes.sync_ids (an option: {} or {ids})
    file_ret,     \* what the last FileSyncOutgoing::run_sync returned
    applied,      \* ids of the records applied to the remote API, in order
    ignored,      \* ids registered with SyncIncoming::ignore_on_next
    events,       \* note ids of the sync:file:uploaded events, in order
    opc,          \* where the generic syncer is inside run_sync
    out_syncs,    \* SyncOutgoing::run_sync's local `syncs` (record ids)
    out_file_syncs, \* SyncOutgoing::run_sync's local `file_syncs` (record ids)
    keychain,     \* profile.keychain: the entries, in order
    spaces,       \* profile.spaces: the loaded spaces
    boards,       \* profile.boards: the loaded boards
    user,         \* turtl.user: its id and key (options)
    kmodel,       \* the note handed to find_model_key
    kret,         \* what find_model_key returned (an option: {} before the call)
    ktrace        \* the lookups and decrypts find_model_key made, in order

VARIABLES
    sync_state,   \* turtl.sync_state: an option of the SyncState ({} or {state})
    sync_config,  \* the shared SyncConfig: its enabled and quit flags
    bindings,     \* names of the event bindings start_sync has installed
    mainq,        \* closures handed to with_next, not yet run by the main loop
    main_pc,      \* "idle", or "join" while the shutdown handler joins threads
    run,          \* position of each syncer thread in its polling loop
    invoked,      \* how often each callback of the SyncState was called
    joined,       \* the syncer threads the shutdown handler has joined
    delivered,    \* the last lifecycle event a handler passed on to the syncers
    joinval,      \* payload of the sync:shutdown event that was handled
    errlog,       \* the syncers whose loop has logged a failed tick
    turtl_db,     \* turtl.db: an option of the user database ({} or {db})
    futures       \* what the futures of login and of logout resolved with

VARIABLES
    queues,       \* CONN.queues: channel name -> an option of a queue (its index)
    heap,         \* the Queue objects created so far (Arc<Queue>), by index
    cpc,          \* where each thread is inside send, recv or recv_nb
    cloc,         \* the locals of that call: `queue`, `res`, the message to send
    ccalls,       \* how many Carrier calls each thread has begun
    sent,         \* the sends that have returned, in order of return
    received      \* the messages receive calls have returned, in order of return

VARIABLES
    profile_lock,    \* the RwLock of turtl.profile: who holds it, who waits
    writer_priority, \* whether a waiting writer blocks new readers (platform)
    kthreads         \* the threads using the profile: position, calls, model

VARIABLES
    num_cpus,     \* what num_cpus::get() reports on the host
    pools,        \* turtl.work and turtl.async: the CpuPool of each Thredder
    spawned       \* the futures run_async has returned, in order of submission

\* The sync queue and the two outgoing syncers.
syncvars == <<queue, next_id, fpc, cur, file_len, remaining, calls, upload_res,
              sync_ids, file_ret, applied, ignored, events, opc, out_syncs,
              out_file_syncs>>

\* The profile, the user and the key resolver.
keyvars == <<keychain, spaces, boards, user, kmodel, kret, ktrace>>

\* The lifecycle controller of Turtl::start_sync and the syncer threads.
lifevars == <<sync_state, sync_config, bindings, mainq, main_pc, run, invoked,
              joined, delivered, joinval, errlog, turtl_db, futures>>

\* The Carrier messaging system and the threads calling it.
carriervars == <<queues, heap, cpc, cloc, ccalls, sent, received>>

\* The lock of turtl.profile and the threads that take it.
lockvars == <<profile_lock, writer_priority, kthreads>>

\* The worker pools Turtl::new creates and the work handed to them.
poolvars == <<num_cpus, pools, spawned>>

vars == <<syncvars, keyvars, lifevars, carriervars, lockvars, poolvars>>

\* What the steps of one part of the program leave alone.
notsync == <<keyvars, lifevars, carriervars, lockvars, poolvars>>
notkey == <<syncvars, lifevars, carriervars, lockvars, poolvars>>
notlife == <<syncvars, keyvars, carriervars, lockvars, poolvars>>
notcarrier == <<syncvars, keyvars, lifevars, lockvars, poolvars>>
notlock == <<syncvars, keyvars, lifevars, carriervars, poolvars>>
notpool == <<syncvars, keyvars, lifevars, carriervars, lockvars>>
\* ... and what login and logout, which set turtl.user, leave alone.
notsession == <<syncvars, keychain, spaces, boards, kmodel, kret, ktrace,
                carriervars, lockvars, poolvars>>

\* upload_file's locals
locals == <<cur, file_len, remaining, calls, upload_res, sync_ids>>

filevars == <<fpc, locals, file_ret>>

outvars == <<opc, out_syncs, out_file_syncs>>

\* ------------------------------------------------------------ SyncRecord
SyncRecord(id, kind, item) ==
    [id |-> id, ty |-> kind[1], action |-> kind[2], item_id |-> item,
     frozen |-> FALSE, errcount |-> 0, error |-> "none"]

Ids(db) == {r.id : r \in db}

\* The records of db in ascending id order.
RECURSIVE SortById(_)
SortById(db) ==
    IF db = {} THEN <<>>
    ELSE LET first == CHOOSE r \in db : \A s \in db : r.id <= s.id
         IN <<first>> \o SortById(db \ {first})

\* SyncRecord::next(db): the oldest record of the table, frozen or not.
SyncRecordNext(db) ==
    IF db = {} THEN {} ELSE {SortById(db)[1]}

\* sync.set_error(&e)
set_error(sync, e) == [sync EXCEPT !.error = e]

\* SyncRecord::handle_failed_sync(db, sync): count the failure on the stored
\* record, keep its error, freeze it past the threshold.  Never deletes.
handle_failed_sync(db, sync) ==
    {IF r.id = sync.id
       THEN [r EXCEPT !.errcount = r.errcount + 1,
                      !.error = sync.error,
                      !.frozen = (r.errcount + 1 > MaxAllowedFailures)]
       ELSE r : r \in db}

\* sync.db_delete(db, None)
db_delete(db, sync) == {r \in db : r.id /= sync.id}

\* ------------------------------------------- FileSyncOutgoing (pure part)
Err == [ok |-> FALSE, val |-> {}]
Ok(v) == [ok |-> TRUE, val |-> v]

\* Variants of get_next_outgoing_file_sync with one plausible slip each.
\* Scans the table for the first file record instead of looking at the head.
get_next_scanning_table(db, dbok) ==
    IF ~dbok THEN Err
    ELSE LET files == {x \in db : x.ty = "FileOutgoing" /\ ~x.frozen}
         IN IF files = {} THEN Ok({}) ELSE Ok({SortById(files)[1]})

\* Forgets the frozen check.
get_next_ignoring_frozen(db, dbok) ==
    IF ~dbok THEN Err
    ELSE LET next == SyncRecordNext(db)
         IN IF next = {} THEN Ok({})
            ELSE LET x == CHOOSE x \in next : TRUE
                 IN IF x.ty = "FileOutgoing" THEN Ok({x}) ELSE Ok({})

\* Steps over frozen records to the first record that is not frozen.
get_next_skipping_frozen(db, dbok) ==
    IF ~dbok THEN Err
    ELSE LET next == SyncRecordNext({x \in db : ~x.frozen})
         IN IF next = {} THEN Ok({})
            ELSE LET x == CHOOSE x \in next : TRUE
                 IN IF x.ty = "FileOutgoing" THEN Ok({x}) ELSE Ok({})

\* Forgets the type check.
get_next_any_type(db, dbok) ==
    IF ~dbok THEN Err
    ELSE LET next == SyncRecordNext(db)
         IN IF next = {} THEN Ok({})
            ELSE LET x == CHOOSE x \in next : TRUE
                 IN IF x.frozen THEN Ok({}) ELSE Ok({x})

\* get_next_outgoing_file_sync: dbok is whether with_db!/SyncRecord::next
\* succeeded.
get_next_outgoing_file_sync(db, dbok) ==
    IF ~dbok THEN Err
    ELSE LET next == SyncRecordNext(db)
         IN IF next = {} THEN Ok({})
            ELSE LET x == CHOOSE x \in next : TRUE
                 IN IF x.ty = "FileOutgoing"
                      THEN IF x.frozen THEN Ok({}) ELSE Ok({x})
                      ELSE Ok({})

\* ------------------------------------------------- Keychain (pure part)
\* Option values: None is {}, Some(x) is {x}.
None == {}
Some(x) == {x}
Unwrap(opt) == CHOOSE x \in opt : TRUE

\* An encrypted key: the key `plain` wrapped under the key `under`.
Enc(under, plain) == [under |-> under, plain |-> plain]
\* The empty string in the place of an encrypted key.
EmptyK == Enc("", "")

\* protected::decrypt_key: the wrapped key if the decrypting key is the one
\* it was wrapped under, an authentication failure otherwise.
decrypt_key(decrypting_key, encrypted_key) ==
    IF encrypted_key /= EmptyK /\ encrypted_key.under = decrypting_key
      THEN Ok(encrypted_key.plain)
      ELSE Err

KeychainEntry(id, ty, k) == [id |-> id, ty |-> ty, k |-> k]

HasId(id, entry) == entry.id = id

\* Keychain::find_entry: the key of the first entry of the item, if any.
find_entry(kc, id) ==
    LET found == SelectSeq(kc, LAMBDA e : HasId(id, e))
    IN IF found = <<>> THEN None ELSE Some(found[1].k)

\* Keychain::find_all_entries: the keys of all entries of the item, in order.
find_all_entries(kc, id) ==
    LET found == SelectSeq(kc, LAMBDA e : HasId(id, e))
    IN [i \in DOMAIN found |-> found[i].k]

\* Keychain::add_key: push an entry.
add_key(kc, id, k, ty) == kc \o <<KeychainEntry(id, ty, k)>>

\* Keychain::upsert_key: replace the key of the item's entry, or push one.
upsert_key(kc, id, k, ty) ==
    IF \E i \in DOMAIN kc : kc[i].id = id
      THEN [i \in DOMAIN kc |->
               IF kc[i].id = id THEN KeychainEntry(id, ty, k) ELSE kc[i]]
      ELSE add_key(kc, id, k, ty)

\* keychain::keyref_from_encrypted: an entry {type: id, "k": encrypted key}
\* of a model's keys list as a KeyRef; k is empty when the entry has none.
keyref_from_encrypted(entry) ==
    LET ty == CHOOSE t \in DOMAIN entry : t /= "k"
    IN [id |-> entry[ty], ty |-> ty,
        k |-> IF "k" \in DOMAIN entry THEN entry.k ELSE EmptyK]

\* ------------------------------------------------------------------ Note
Note(id, key, keys, space_id, board_id) ==
    [id |-> id, key |-> key, keys |-> keys, space_id |-> space_id,
     board_id |-> board_id]

\* A loaded space or board of the profile, and the user: id and key options.
Keyed(id, key) == [id |-> id, key |-> key]

\* model.get_keys()
get_keys(model) == Some(model.keys)

\* key.get(field) over the entries of a keys list, collected.
Referenced(keys, field) ==
    {keys[i][field] : i \in {j \in DOMAIN keys : field \in DOMAIN keys[j]}}

\* The loops over profile.spaces and profile.boards: upsert the key of every
\* loaded item that has an id and a key and whose id is in ids.
RECURSIVE UpsertLoaded(_, _, _, _)
UpsertLoaded(kc, loaded, ids, ty) ==
    IF loaded = <<>> THEN kc
    ELSE LET item == loaded[1]
             skip == \/ item.id = None \/ item.key = None
                     \/ Unwrap(item.id) \notin ids
         IN UpsertLoaded(IF skip THEN kc
                         ELSE upsert_key(kc, Unwrap(item.id),
                                         Unwrap(item.key), ty),
                         Tail(loaded), ids, ty)

\* Note's get_key_search that only looks at the note's own space and board,
\* not at its keys list.
get_key_search_owners_only(note, sp, bo) ==
    LET with_spaces == UpsertLoaded(<<>>, sp, {note.space_id}, "space")
    IN IF note.board_id = None THEN with_spaces
       ELSE UpsertLoaded(with_spaces, bo, note.board_id, "board")

\* Keyfinder::get_key_search for Note.
get_key_search(note, sp, bo) ==
    LET keys == IF get_keys(note) = None THEN <<>> ELSE Unwrap(get_keys(note))
        space_ids == {note.space_id} \cup Referenced(keys, "s")
        board_ids == note.board_id \cup Referenced(keys, "b")
        with_spaces == IF space_ids /= {}
                         THEN UpsertLoaded(<<>>, sp, space_ids, "space")
                         ELSE <<>>
    IN IF board_ids /= {}
         THEN UpsertLoaded(with_spaces, bo, board_ids, "board")
         ELSE with_spaces

\* -------------------------------------------------- Turtl::find_model_key
\* An entry of the resolver's trace.
Op(op, arg) == [op |-> op, arg |-> arg]

Found(val, ops) == [val |-> val, ops |-> ops]

\* decrypt_key with each of the candidate keys in turn, up to the first that
\* decrypts: `match decrypt_key(..) { Ok(key) => return .., Err(_) => {} }`.
RECURSIVE TryKeys(_, _)
TryKeys(keys, encrypted_key) ==
    IF keys = <<>> THEN Found(None, <<>>)
    ELSE LET res == decrypt_key(keys[1], encrypted_key)
             try == <<Op("decrypt", keys[1])>>
         IN IF res.ok THEN Found(Some(res.val), try)
            ELSE LET rest == TryKeys(Tail(keys), encrypted_key)
                 IN Found(rest.val, try \o rest.ops)

OptSeq(opt) == IF opt = None THEN <<>> ELSE <<Unwrap(opt)>>

\* WalkKeyrefs returning at the first decrypt that fails, as if the error
\* of decrypt_key were passed on.
RECURSIVE WalkKeyrefsUntilFailure(_, _, _)
WalkKeyrefsUntilFailure(keyrefs, kc, search) ==
    IF keyrefs = <<>> THEN Found(None, <<>>)
    ELSE LET keyref == keyrefs[1]
             direct == TryKeys(OptSeq(find_entry(kc, keyref.id)), keyref.k)
             direct_ops == <<Op("find_entry", keyref.id)>> \o direct.ops
         IN IF direct.val /= None \/ direct.ops /= <<>>
              THEN Found(direct.val, direct_ops)
            ELSE LET matches == TryKeys(find_all_entries(search, keyref.id),
                                        keyref.k)
                     ops == direct_ops
                              \o <<Op("find_all_entries", keyref.id)>>
                              \o matches.ops
                 IN IF matches.val /= None \/ matches.ops /= <<>>
                      THEN Found(matches.val, ops)
                    ELSE LET rest == WalkKeyrefsUntilFailure(Tail(keyrefs),
                                                             kc, search)
                         IN Found(rest.val, ops \o rest.ops)

\* WalkKeyrefs trying, for each key reference, every key of the search
\* keychain, whatever item it belongs to.
RECURSIVE WalkKeyrefsAllKeys(_, _, _)
WalkKeyrefsAllKeys(keyrefs, kc, search) ==
    IF keyrefs = <<>> THEN Found(None, <<>>)
    ELSE LET keyref == keyrefs[1]
             direct == TryKeys(OptSeq(find_entry(kc, keyref.id)), keyref.k)
             direct_ops == <<Op("find_entry", keyref.id)>> \o direct.ops
         IN IF direct.val /= None THEN Found(direct.val, direct_ops)
            ELSE LET matches == TryKeys([i \in DOMAIN search |-> search[i].k],
                                        keyref.k)
                     ops == direct_ops
                              \o <<Op("find_all_entries", keyref.id)>>
                              \o matches.ops
                 IN IF matches.val /= None THEN Found(matches.val, ops)
                    ELSE LET rest == WalkKeyrefsAllKeys(Tail(keyrefs), kc,
                                                        search)
                         IN Found(rest.val, ops \o rest.ops)

\* `for keyref in &encrypted_keys`: for each key reference the keychain
\* entry of the referenced item, then the matches of the search keychain.
RECURSIVE WalkKeyrefs(_, _, _)
WalkKeyrefs(keyrefs, kc, search) ==
    IF keyrefs = <<>> THEN Found(None, <<>>)
    ELSE LET keyref == keyrefs[1]
             direct == TryKeys(OptSeq(find_entry(kc, keyref.id)), keyref.k)
             direct_ops == <<Op("find_entry", keyref.id)>> \o direct.ops
         IN IF direct.val /= None THEN Found(direct.val, direct_ops)
            ELSE LET matches == TryKeys(find_all_entries(search, keyref.id),
                                        keyref.k)
                     ops == direct_ops
                              \o <<Op("find_all_entries", keyref.id)>>
                              \o matches.ops
                 IN IF matches.val /= None THEN Found(matches.val, ops)
                    ELSE LET rest == WalkKeyrefs(Tail(keyrefs), kc, search)
                         IN Found(rest.val, ops \o rest.ops)

Resolved(ret, model, ops) == [ret |-> ret, model |-> model, ops |-> ops]

\* found_key: model.set_key(Some(key)); Ok(model.key())
found_key(model, key, ops) ==
    Resolved(Ok(Some(key)), [model EXCEPT !.key = Some(key)], ops)

HasK(keyref) == keyref.k /= EmptyK

\* find_model_key past the direct lookup: the search keychain, the key
\* references of the model, the user's key, the walk.
SearchModelKey(model, kc, sp, bo, usr, ops) ==
    LET search == get_key_search(model, sp, bo)
        encrypted_keys == IF get_keys(model) = None THEN <<>>
                          ELSE Unwrap(get_keys(model))
        searched == ops \o <<Op("get_key_search", "")>>
    IN IF Len(encrypted_keys) = 0 THEN Resolved(Ok(None), model, searched)
       ELSE LET keyrefs ==
                    SelectSeq([i \in DOMAIN encrypted_keys |->
                                  keyref_from_encrypted(encrypted_keys[i])],
                              HasK)
                with_user ==
                    IF usr.id /= None /\ usr.key /= None
                      THEN add_key(search, Unwrap(usr.id), Unwrap(usr.key),
                                   "user")
                      ELSE search
                walk == WalkKeyrefs(keyrefs, kc, with_user)
            IN IF walk.val /= None
                 THEN found_key(model, Unwrap(walk.val), searched \o walk.ops)
                 ELSE Resolved(Ok(None), model, searched \o walk.ops)

\* find_model_key building the search keychain before it looks for the
\* model's own entry.
find_model_key_search_first(model, kc, sp, bo, usr) ==
    LET res == SearchModelKey(model, kc, sp, bo, usr, <<>>)
    IN IF model.id /= None /\ find_entry(kc, Unwrap(model.id)) /= None
         THEN found_key(model, Unwrap(find_entry(kc, Unwrap(model.id))),
                        res.ops \o <<Op("find_entry", Unwrap(model.id))>>)
         ELSE res

\* find_model_key taking a model without keys for a failure.
find_model_key_strict(model, kc, sp, bo, usr) ==
    LET res == SearchModelKey(model, kc, sp, bo, usr, <<>>)
    IN IF model.id /= None /\ find_entry(kc, Unwrap(model.id)) /= None
         THEN found_key(model, Unwrap(find_entry(kc, Unwrap(model.id))),
                        <<Op("find_entry", Unwrap(model.id))>>)
       ELSE IF res.ret.val = None
         THEN Resolved(Err, [model EXCEPT !.key = None], res.ops)
         ELSE res

\* Turtl::find_model_key: the keychain entry of the model's id if there is
\* one, the search otherwise.
find_model_key(model, kc, sp, bo, usr) ==
    IF model.id /= None
      THEN LET lookup == <<Op("find_entry", Unwrap(model.id))>>
               key == find_entry(kc, Unwrap(model.id))
           IN IF key /= None THEN found_key(model, Unwrap(key), lookup)
              ELSE SearchModelKey(model, kc, sp, bo, usr, lookup)
      ELSE SearchModelKey(model, kc, sp, bo, usr, <<>>)

\* ------------------------------------------------------------------- Init
SyncInit ==
    /\ queue = {}
    /\ next_id = 1
    /\ fpc = "idle"
    /\ cur = {}
    /\ file_len = 0
    /\ remaining = 0
    /\ calls = <<>>
    /\ upload_res = "none"
    /\ sync_ids = {}
    /\ file_ret = "none"
    /\ applied = <<>>
    /\ ignored = {}
    /\ events = <<>>
    /\ opc = "idle"
    /\ out_syncs = <<>>
    /\ out_file_syncs = <<>>

\* Turtl::new: an empty profile, no user, and no model being resolved.
KeyIdle ==
    /\ keychain = <<>>
    /\ spaces = <<>>
    /\ boards = <<>>
    /\ user = Keyed(None, None)
    /\ kmodel = Note(None, None, <<>>, "", None)
    /\ kret = None
    /\ ktrace = <<>>

\* The two outgoing syncers sync::start spawns a thread for.
Syncers == {"outgoing", "files:outgoing"}

Callbacks == {"pause", "resume", "shutdown"}

\* Turtl::new: sync_state is None, nothing is bound, no thread runs.
LifeIdle ==
    /\ sync_state = None
    /\ sync_config = [enabled |-> FALSE, quit |-> FALSE]
    /\ bindings = {}
    /\ mainq = <<>>
    /\ main_pc = "idle"
    /\ run = [s \in Syncers |-> "none"]
    /\ invoked = [c \in Callbacks |-> 0]
    /\ joined = {}
    /\ delivered = "none"
    /\ joinval = "none"
    /\ errlog = {}
    /\ turtl_db = None
    /\ futures = [f \in {"login", "logout"} |-> "none"]

\* The channels and the threads that use them.
Channels == {"core"}
Senders == {"sender"}
Receivers == {"rx1", "rx2"}
\* The receivers that also poll with recv_nb; every receiver calls recv.
Pollers == {"rx2"}
Threads == Senders \cup Receivers

\* No message to send / no message received.
NoMsg == [id |-> 0, bytes |-> <<>>]

\* Carrier::new: no channel; no Carrier call is in progress.
CarrierIdle ==
    /\ queues = [c \in Channels |-> None]
    /\ heap = <<>>
    /\ cpc = [t \in Threads |-> "idle"]
    /\ cloc = [t \in Threads |->
                 [op |-> "none", queue |-> 0, res |-> None, message |-> NoMsg]]
    /\ ccalls = [t \in Threads |-> 0]
    /\ sent = <<>>
    /\ received = <<>>

\* The threads that resolve keys and the threads that change the profile.
Resolvers == {"resolver1", "resolver2"}
Writers == {"writer"}
ProfileThreads == Resolvers \cup Writers

\* RwLock::new(Profile::new()): nobody holds the lock, nobody waits for it.
Unlocked ==
    [readers |-> [t \in ProfileThreads |-> 0], writer |-> None, waiting |-> {}]

\* No thread is inside find_model_key or inside a change of the profile.
NoCall == [pc |-> "idle", calls |-> 0, direct |-> FALSE, board |-> FALSE]

LockIdle ==
    /\ profile_lock = Unlocked
    /\ writer_priority = FALSE
    /\ kthreads = [t \in ProfileThreads |-> NoCall]

\* The two Thredders of a Turtl.
Pools == {"work", "async"}

\* No CpuPool yet: Turtl::new has not run.
NoPool == [state |-> "none", workers |-> 0, queue |-> <<>>, running |-> {}]

PoolIdle ==
    /\ num_cpus = 1
    /\ pools = [p \in Pools |-> NoPool]
    /\ spawned = <<>>

Init ==
    SyncInit /\ KeyIdle /\ LifeIdle /\ CarrierIdle /\ LockIdle /\ PoolIdle

\* --------------------------------------------------------------- actions
\* The main thread records a local mutation: append to the tail of the table.
AppendRecord ==
    /\ next_id <= MaxId
    /\ \E kind \in RecordKinds, item \in Items :
          queue' = queue \cup {SyncRecord(next_id, kind, item)}
    /\ next_id' = next_id + 1
    /\ UNCHANGED <<filevars, applied, ignored, events, outvars>>
    /\ UNCHANGED notsync

\* ----------------------------------------------- SyncOutgoing::run_sync
IsFileSync(rec) == rec.ty = "File" /\ rec.action = "add"
IsGenericSync(rec) == ~IsFileSync(rec)

IdsOf(recs) == [i \in 1..Len(recs) |-> recs[i].id]

\* One tick of the generic outgoing syncer, up to the end of the for loop:
\* read the table, convert, sort by id, partition into file_syncs and syncs.
\* A failed read or conversion and an empty table return at once.
OutRunSync ==
    /\ opc = "idle"
    /\ \E dbok \in BOOLEAN, parsed \in BOOLEAN :
          IF ~dbok \/ queue = {} \/ ~parsed
            THEN UNCHANGED outvars
            ELSE LET sync == SortById(queue)
                 IN /\ out_syncs' = IdsOf(SelectSeq(sync, IsGenericSync))
                    /\ out_file_syncs' = IdsOf(SelectSeq(sync, IsFileSync))
                    /\ opc' = "partitioned"
    /\ UNCHANGED <<queue, next_id, filevars, applied, ignored, events>>
    /\ UNCHANGED notsync

\* The rest of the tick: Ok(()).  syncs and file_syncs are dropped; nothing
\* was sent to the API and nothing was deleted.
OutReturn ==
    /\ opc = "partitioned"
    /\ opc' = "idle"
    /\ out_syncs' = <<>>
    /\ out_file_syncs' = <<>>
    /\ UNCHANGED <<queue, next_id, filevars, applied, ignored, events>>
    /\ UNCHANGED notsync

\* ------------------------------------------- FileSyncOutgoing::run_sync
\* upload_file's locals once it has returned.
NoLocals ==
    /\ cur' = {}
    /\ file_len' = 0
    /\ remaining' = 0
    /\ calls' = <<>>
    /\ upload_res' = "none"
    /\ sync_ids' = {}

\* run_sync up to the call of upload_file: get the next file sync record.
FileRunSync ==
    /\ fpc = "idle"
    /\ \E dbok \in BOOLEAN :
          LET sync_maybe == get_next_outgoing_file_sync(queue, dbok)
          IN IF ~sync_maybe.ok
               THEN /\ file_ret' = "Err"
                    /\ UNCHANGED <<fpc, cur>>
             ELSE IF sync_maybe.val = {}
               THEN /\ file_ret' = "Ok"
                    /\ UNCHANGED <<fpc, cur>>
             ELSE /\ file_ret' = "none"
                  /\ cur' = sync_maybe.val
                  /\ fpc' = "upload"
    /\ UNCHANGED <<file_len, remaining, calls, upload_res, sync_ids>>
    /\ UNCHANGED <<queue, next_id, applied, ignored, events, outvars>>
    /\ UNCHANGED notsync

TheSync == CHOOSE s \in cur : TRUE

\* Start of upload_file: read SyncConfig.user_id; without one, return
\* TError::MissingField at once.
UploadConfig ==
    /\ fpc = "upload"
    /\ \E has_user_id \in BOOLEAN :
          IF has_user_id
            THEN /\ fpc' = "closure"
                 /\ UNCHANGED <<file_ret, locals>>
            ELSE /\ file_ret' = "Err"
                 /\ fpc' = "idle"
                 /\ NoLocals
    /\ UNCHANGED <<queue, next_id, applied, ignored, events, outvars>>
    /\ UNCHANGED notsync

Call(op, req, ret) == [op |-> op, req |-> req, ret |-> ret]

\* The application of record id to the remote API starts; a retry of the
\* record applied last is the same application.
Applied(log, id) ==
    IF log /= <<>> /\ log[Len(log)] = id THEN log ELSE log \o <<id>>

\* The TError a failing step of the upload closure returns through `?`.
ErrorOf(step) ==
    IF step = "file_finder" THEN "NotFound"
    ELSE IF step \in {"call_start", "call_end"} THEN "Api"
    ELSE IF step = "short_write" THEN "Msg"
    ELSE "Io"

\* UploadOpen with the API call started before the local file is looked up
\* and opened.
UploadOpenCallFirst ==
    /\ fpc = "closure"
    /\ \E step \in {"file_finder", "open", "call_start", "ok"},
          size \in FileSizes :
          IF step = "ok"
            THEN /\ calls' = calls \o <<Call("call_start", 0, 0)>>
                 /\ applied' = Applied(applied, TheSync.id)
                 /\ file_len' = size
                 /\ remaining' = size
                 /\ fpc' = "stream"
                 /\ UNCHANGED upload_res
            ELSE /\ calls' = calls \o <<Call("call_start", 0,
                                   IF step = "call_start" THEN -1 ELSE 0)>>
                 /\ applied' = Applied(applied, TheSync.id)
                 /\ upload_res' = ErrorOf(step)
                 /\ fpc' = "failed"
                 /\ UNCHANGED <<file_len, remaining>>
    /\ UNCHANGED <<queue, next_id, cur, sync_ids, file_ret, ignored, events,
                   outvars>>
    /\ UNCHANGED notsync

\* Start of the upload closure: file_finder, File::open, call_start.
UploadOpen ==
    /\ fpc = "closure"
    /\ \E step \in {"file_finder", "open", "call_start", "ok"},
          size \in FileSizes :
          IF step = "ok"
            THEN /\ calls' = calls \o <<Call("call_start", 0, 0)>>
                 /\ applied' = Applied(applied, TheSync.id)
                 /\ file_len' = size
                 /\ remaining' = size
                 /\ fpc' = "stream"
                 /\ UNCHANGED upload_res
            ELSE /\ calls' = IF step = "call_start"
                               THEN calls \o <<Call("call_start", 0, -1)>>
                               ELSE calls
                 /\ applied' = IF step = "call_start"
                                 THEN Applied(applied, TheSync.id)
                                 ELSE applied
                 /\ upload_res' = ErrorOf(step)
                 /\ fpc' = "failed"
                 /\ UNCHANGED <<file_len, remaining>>
    /\ UNCHANGED <<queue, next_id, cur, sync_ids, file_ret, ignored, events,
                   outvars>>
    /\ UNCHANGED notsync

Min(a, b) == IF a <= b THEN a ELSE b

\* file.read(&mut buf[..]) with `remaining` bytes left in the file.
Read(remaining_bytes) == Min(BufSize, remaining_bytes)

\* What stream.write() returns for a request of `read` bytes.
Written(read, outcome) ==
    IF outcome = "full" THEN read
    ELSE IF outcome = "short" THEN read - 1
    ELSE -1

\* The comparison of the two counts left out.
ShortWriteUnnoticed(read, written) == FALSE

\* if read != written { return TErr!(...) }
ShortWrite(read, written) == read /= written

\* One turn of the upload loop: read up to a buffer, stop at EOF, write the
\* bytes read and compare the counts.  The file and the buffer are dropped
\* when the closure returns.
UploadChunk ==
    /\ fpc = "stream"
    /\ \E read_ok \in BOOLEAN, outcome \in {"full", "short", "err"} :
          LET read == Read(remaining)
              written == Written(read, outcome)
          IN IF ~read_ok
               THEN /\ upload_res' = ErrorOf("read")
                    /\ fpc' = "failed"
                    /\ file_len' = 0
                    /\ remaining' = 0
                    /\ UNCHANGED calls
             ELSE IF read <= 0
               THEN /\ fpc' = "finish"
                    /\ UNCHANGED <<calls, file_len, remaining, upload_res>>
             ELSE /\ calls' = calls \o <<Call("write", read, written)>>
                  /\ IF outcome = "err"
                       THEN /\ upload_res' = ErrorOf("write")
                            /\ fpc' = "failed"
                            /\ file_len' = 0
                            /\ remaining' = 0
                     ELSE IF ShortWrite(read, written)
                       THEN /\ upload_res' = ErrorOf("short_write")
                            /\ fpc' = "failed"
                            /\ file_len' = 0
                            /\ remaining' = 0
                     ELSE /\ remaining' = remaining - read
                          /\ UNCHANGED <<fpc, file_len, upload_res>>
    /\ UNCHANGED <<queue, next_id, cur, sync_ids, file_ret, applied, ignored,
                   events, outvars>>
    /\ UNCHANGED notsync

\* After the loop: stream.flush() and api.call_end(stream.send(), info).
UploadEnd ==
    /\ fpc = "finish"
    /\ \E step \in {"flush", "call_end", "ok"}, ids \in BOOLEAN :
          /\ calls' = IF step = "flush" THEN calls
                      ELSE calls \o <<Call("call_end", 0,
                                           IF step = "ok" THEN 0 ELSE -1)>>
          /\ IF step = "ok"
               THEN /\ upload_res' = "Ok"
                    /\ sync_ids' = IF ids THEN {{TheSync.id}} ELSE {}
                    /\ fpc' = "ok"
               ELSE /\ upload_res' = ErrorOf(step)
                    /\ fpc' = "failed"
                    /\ UNCHANGED sync_ids
    /\ file_len' = 0
    /\ remaining' = 0
    /\ UNCHANGED <<queue, next_id, cur, file_ret, applied, ignored, events,
                   outvars>>
    /\ UNCHANGED notsync

\* UploadIgnore with the error of ignore_on_next returned through `?`.
UploadIgnoreChecked ==
    /\ fpc = "ok"
    /\ \E ignore_ok \in BOOLEAN :
          IF sync_ids /= {} /\ ~ignore_ok
            THEN /\ file_ret' = "Err"
                 /\ fpc' = "idle"
                 /\ NoLocals
                 /\ UNCHANGED ignored
            ELSE /\ ignored' = IF sync_ids /= {}
                                 THEN ignored \cup (CHOOSE ids \in sync_ids : TRUE)
                                 ELSE ignored
                 /\ fpc' = "delete"
                 /\ UNCHANGED <<file_ret, locals>>
    /\ UNCHANGED <<queue, next_id, applied, events, outvars>>
    /\ UNCHANGED notsync

\* match upload(&note_id) { Ok(res) => ... }: register the server's sync ids
\* with the incoming syncer; an error there is logged and dropped.
UploadIgnore ==
    /\ fpc = "ok"
    /\ \E ignore_ok \in BOOLEAN :
          ignored' = IF sync_ids /= {} /\ ignore_ok
                       THEN ignored \cup (CHOOSE ids \in sync_ids : TRUE)
                       ELSE ignored
    /\ fpc' = "delete"
    /\ UNCHANGED <<queue, next_id, cur, file_len, remaining, calls, upload_res,
                   sync_ids, file_ret, applied, events, outvars>>
    /\ UNCHANGED notsync

\* UploadDelete with the `?` on db_delete lost: a failed delete goes on to the
\* notification.
UploadDeleteUnchecked ==
    /\ fpc = "delete"
    /\ \E delete_ok \in BOOLEAN :
          queue' = IF delete_ok THEN db_delete(queue, TheSync) ELSE queue
    /\ fpc' = "notify"
    /\ UNCHANGED <<file_ret, locals>>
    /\ UNCHANGED <<next_id, applied, ignored, events, outvars>>
    /\ UNCHANGED notsync

\* sync.db_delete(db, None)?
UploadDelete ==
    /\ fpc = "delete"
    /\ \E delete_ok \in BOOLEAN :
          IF delete_ok
            THEN /\ queue' = db_delete(queue, TheSync)
                 /\ fpc' = "notify"
                 /\ UNCHANGED <<file_ret, locals>>
            ELSE /\ file_ret' = "Err"
                 /\ fpc' = "idle"
                 /\ NoLocals
                 /\ UNCHANGED queue
    /\ UNCHANGED <<next_id, applied, ignored, events, outvars>>
    /\ UNCHANGED notsync

\* messaging::ui_event("sync:file:uploaded", {"note_id": note_id})?; Ok(())
UploadNotify ==
    /\ fpc = "notify"
    /\ \E event_ok \in BOOLEAN :
          IF event_ok
            THEN /\ events' = events \o <<TheSync.item_id>>
                 /\ file_ret' = "Ok"
            ELSE /\ file_ret' = "Err"
                 /\ UNCHANGED events
    /\ fpc' = "idle"
    /\ NoLocals
    /\ UNCHANGED <<queue, next_id, applied, ignored, outvars>>
    /\ UNCHANGED notsync

\* UploadFailed handing the upload's error back to run_sync after the handler
\* has dealt with it.
UploadFailedReturnsError ==
    /\ fpc = "failed"
    /\ LET sync == set_error(TheSync, upload_res)
       IN \E handler_ok \in BOOLEAN :
             queue' = IF handler_ok THEN handle_failed_sync(queue, sync)
                      ELSE queue
    /\ file_ret' = "Err"
    /\ fpc' = "idle"
    /\ NoLocals
    /\ UNCHANGED <<next_id, applied, ignored, events, outvars>>
    /\ UNCHANGED notsync

\* match upload(&note_id) { Err(e) => ... }: set the error on the record,
\* hand it to the failed-sync handler, return Ok (or the handler's error).
UploadFailed ==
    /\ fpc = "failed"
    /\ LET sync == set_error(TheSync, upload_res)
       IN \E handler_ok \in BOOLEAN :
             IF handler_ok
               THEN /\ queue' = handle_failed_sync(queue, sync)
                    /\ file_ret' = "Ok"
               ELSE /\ file_ret' = "Err"
                    /\ UNCHANGED queue
    /\ fpc' = "idle"
    /\ NoLocals
    /\ UNCHANGED <<next_id, applied, ignored, events, outvars>>
    /\ UNCHANGED notsync

Next ==
    \/ AppendRecord
    \/ OutRunSync
    \/ OutReturn
    \/ FileRunSync
    \/ UploadConfig
    \/ UploadOpen
    \/ UploadChunk
    \/ UploadEnd
    \/ UploadIgnore
    \/ UploadDelete
    \/ UploadNotify
    \/ UploadFailed

Spec == Init /\ [][Next]_vars

\* Each syncer thread loops forever (tick, sleep for get_delay(), tick ...),
\* so a step a syncer can take is eventually taken.  A tick that ends in an
\* error is always possible (the storage may fail at any time) and changes
\* file_ret; the fairness is stated for the steps that do not end in one, so
\* that it forces no failure.
OutTick == OutRunSync \/ OutReturn

FileTick ==
    \/ FileRunSync \/ UploadConfig \/ UploadOpen \/ UploadChunk \/ UploadEnd
    \/ UploadIgnore \/ UploadDelete \/ UploadNotify \/ UploadFailed

FileTickOk == FileTick /\ file_ret' /= "Err"

FairSpec == Spec /\ WF_vars(OutTick) /\ WF_vars(FileTickOk)

\* ------------------------------------------------------ the key resolver
\* The entries a note's keys list is made of: a reference to board B, space
\* S or user U with the note's key wrapped under a key, or with no "k".
KeyEntries ==
    {[b |-> "B", k |-> Enc("kB", "k1")], [b |-> "B", k |-> Enc("kS", "k2")],
     [s |-> "S", k |-> Enc("kS", "k2")], [u |-> "U", k |-> Enc("kU", "k1")],
     [b |-> "B"]}

RECURSIVE SeqsUpTo(_, _)
SeqsUpTo(S, n) ==
    IF n = 0 THEN {<<>>}
    ELSE LET shorter == SeqsUpTo(S, n - 1)
         IN shorter \cup {<<x>> \o q : x \in S, q \in shorter}

\* The notes handed to the resolver: parsed or built, with or without an id,
\* with or without a key already set.
Notes ==
    {Note(id, key, keys, space_id, board_id) :
        id \in {None, Some("N")}, key \in {None, Some("k0")},
        keys \in SeqsUpTo(KeyEntries, MaxRefs),
        space_id \in {"S", "S0"}, board_id \in {None, Some("B")}}

\* A loaded board: id, key, and its own keys list.
Board(id, key, keys) == [id |-> id, key |-> key, keys |-> keys]

\* The keys list of a board whose key is wrapped under the key of note N:
\* with a note that references the board, the references form a cycle.
BoardKeys == <<[n |-> "N", k |-> Enc("k1", "kB")]>>

EntrySeq(id, ty, key) ==
    IF key = None THEN <<>> ELSE <<KeychainEntry(id, ty, Unwrap(key))>>

\* The profile keychains: at most one entry for the note, for board B (its
\* key, or a key that is not B's any more) and for space S.
Keychains ==
    {EntrySeq("N", "note", n) \o EntrySeq("B", "board", b)
        \o EntrySeq("S", "space", sp) :
        n \in {None, Some("k1")}, b \in {None, Some("kB"), Some("kX")},
        sp \in {None, Some("kS")}}

\* The resolver is handed a note while the profile holds some keychain, some
\* loaded spaces and boards, and the user is logged in or not.
KeyInit ==
    /\ SyncInit
    /\ LifeIdle
    /\ CarrierIdle
    /\ LockIdle
    /\ PoolIdle
    /\ keychain \in Keychains
    /\ spaces \in {<<>>, <<Keyed(Some("S"), Some("kS"))>>}
    /\ boards \in {<<>>, <<Board(Some("B"), Some("kB"), <<>>)>>,
                   <<Board(Some("B"), None, BoardKeys)>>}
    /\ user \in {Keyed(None, None), Keyed(Some("U"), Some("kU"))}
    /\ kmodel \in Notes
    /\ kret = None
    /\ ktrace = <<>>

\* turtl.find_model_key(&mut model)
FindModelKey ==
    /\ LET res == find_model_key(kmodel, keychain, spaces, boards, user)
       IN /\ kmodel' = res.model
          /\ kret' = Some(res.ret)
          /\ ktrace' = res.ops
    /\ UNCHANGED <<keychain, spaces, boards, user>>
    /\ UNCHANGED notkey

KeyNext == FindModelKey

KeySpec == KeyInit /\ [][KeyNext]_vars

\* ------------------------------------------------------ the sync lifecycle
\* Start of the lifecycle section: the controller of Turtl::start_sync (the
\* event handlers it binds) and the polling loop of each syncer thread.  A
\* tick is the call of run_sync, from its start to its return; what happens
\* inside it is the subject of the specification Spec.

\* Most sync:pause and sync:resume events one behaviour passes to the syncers.
MaxSignals == 2

\* The payloads sync:shutdown is triggered with: Value::Bool(true),
\* Value::Bool(false) (logout) and jedi::obj() (app:shutdown).
Payloads == {"true", "false", "obj"}

\* let join = match *joinval { Value::Bool(x) => x, _ => false };
Join(payload) == payload = "true"

\* What run_sync returns to the polling loop: Ok(()) or an error.
RunSyncResults == {"Ok", "Err"}

\* The SyncState sync::start returns: one join handle per spawned thread.
SyncState == [join_handles |-> <<"outgoing", "files:outgoing">>]

\* The callbacks of the SyncState write the flags of the shared SyncConfig.
pause(config) == [config EXCEPT !.enabled = FALSE]
resume(config) == [config EXCEPT !.enabled = TRUE]
shutdown(config) == [config EXCEPT !.quit = TRUE]

Invoke(callback) == [invoked EXCEPT ![callback] = @ + 1]

\* The main thread is between two closures: it is inside no join loop and not
\* half way through the closure of logout.
MainIdle == main_pc = "idle" /\ futures["logout"] /= "pending"

\* Turtl::start_sync, once per session: sync::start spawns the syncer threads
\* with syncing enabled, the state is stored, and the bindings are handed to
\* with_next.  A failing create_user_db or sync::start returns the error.
StartSync ==
    /\ MainIdle
    /\ sync_state = None
    /\ \A s \in Syncers : run[s] = "none"
    /\ \E started \in BOOLEAN :
          IF started
            THEN /\ sync_state' = Some(SyncState)
                 /\ sync_config' = [enabled |-> TRUE, quit |-> FALSE]
                 /\ run' = [s \in Syncers |-> "loop"]
                 /\ mainq' = mainq \o <<"bind">>
            ELSE UNCHANGED <<sync_state, sync_config, run, mainq>>
    /\ UNCHANGED <<bindings, main_pc, invoked, joined, delivered, joinval,
                   errlog>>
    /\ UNCHANGED <<turtl_db, futures>>
    /\ UNCHANGED notlife

\* The closure start_sync hands to with_next: bind the four handlers.
BindHandlers ==
    /\ bindings' = bindings \cup {"turtl:app:shutdown:sync",
                                  "turtl:sync:shutdown", "turtl:sync:pause",
                                  "turtl:sync:resume"}
    /\ UNCHANGED <<sync_state, sync_config, main_pc, run, invoked, joined,
                   delivered, joinval, errlog>>

\* SyncShutdown with the join loop run for every payload.
SyncShutdownAlwaysJoins(payload) ==
    /\ bindings' = bindings \ {"turtl:sync:shutdown"}
    /\ IF sync_state /= None
         THEN /\ invoked' = Invoke("shutdown")
              /\ sync_config' = shutdown(sync_config)
              /\ delivered' = "sync:shutdown"
              /\ joinval' = payload
              /\ main_pc' = "join"
              /\ UNCHANGED sync_state
         ELSE /\ sync_state' = None
              /\ UNCHANGED <<sync_config, invoked, delivered, joinval, main_pc>>
    /\ UNCHANGED <<run, joined, errlog>>

\* The sync:shutdown handler (bound once) up to its join loop: call the
\* shutdown callback of a present state; with a payload of true go on to join
\* the threads, otherwise empty sync_state at once.
SyncShutdown(payload) ==
    /\ bindings' = bindings \ {"turtl:sync:shutdown"}
    /\ IF sync_state /= None
         THEN /\ invoked' = Invoke("shutdown")
              /\ sync_config' = shutdown(sync_config)
              /\ delivered' = "sync:shutdown"
              /\ joinval' = payload
              /\ IF Join(payload)
                   THEN /\ main_pc' = "join"
                        /\ UNCHANGED sync_state
                   ELSE /\ sync_state' = None
                        /\ UNCHANGED main_pc
         ELSE /\ sync_state' = None
              /\ UNCHANGED <<sync_config, invoked, delivered, joinval, main_pc>>
    /\ UNCHANGED <<run, joined, errlog>>

\* events.trigger("sync:shutdown", payload): run the handler if it is bound.
TriggerSyncShutdown(payload) ==
    IF "turtl:sync:shutdown" \in bindings
      THEN SyncShutdown(payload)
      ELSE UNCHANGED <<sync_state, sync_config, bindings, main_pc, run,
                       invoked, joined, delivered, joinval, errlog>>

\* The main loop runs the next closure handed to with_next.
MainNext ==
    /\ MainIdle
    /\ mainq /= <<>>
    /\ mainq' = Tail(mainq)
    /\ IF Head(mainq) = "bind"
         THEN BindHandlers
         ELSE TriggerSyncShutdown("obj")
    /\ UNCHANGED <<turtl_db, futures>>
    /\ UNCHANGED notlife

\* An app:shutdown event: its handler (bound once) hands the trigger of
\* sync:shutdown, with an object as payload, to with_next.
AppShutdown ==
    /\ MainIdle
    /\ "turtl:app:shutdown:sync" \in bindings
    /\ bindings' = bindings \ {"turtl:app:shutdown:sync"}
    /\ mainq' = mainq \o <<"shutdown">>
    /\ UNCHANGED <<sync_state, sync_config, main_pc, run, invoked, joined,
                   delivered, joinval, errlog>>
    /\ UNCHANGED <<turtl_db, futures>>
    /\ UNCHANGED notlife

Resolve(f, res) == [futures EXCEPT ![f] = res]

\* The user a successful User::login leaves in turtl.user, and User::new().
LoggedIn == Keyed(Some("U"), Some("kU"))
NoUser == Keyed(None, None)

\* Turtl::get_user_db_location: an error without a user id, else the location
\* of the database of that user.
get_user_db_location(u) ==
    IF u.id = None THEN Err ELSE Ok(<<"turtl-user", Unwrap(u.id)>>)

\* Turtl::create_user_db: the location, then Storage::new, which opens the
\* database there or fails (so does a missing schema in the config).
create_user_db(u, opened) ==
    LET db_location == get_user_db_location(u)
    IN IF ~db_location.ok THEN Err
       ELSE IF opened THEN Ok(db_location.val)
       ELSE Err

\* Turtl::login, first closure (run by the main loop): call User::login, whose
\* future is then pending.  One login per behaviour.
Login ==
    /\ MainIdle
    /\ futures["login"] = "none"
    /\ futures' = Resolve("login", "pending")
    /\ UNCHANGED <<sync_state, sync_config, bindings, mainq, main_pc, run,
                   invoked, joined, delivered, joinval, errlog,
                   turtl_db>>
    /\ UNCHANGED notlife

\* LoginAndThen storing the database handle before looking at the result of
\* create_user_db.
LoginAndThenStoresAnyway(logged_in, opened) ==
    IF ~logged_in
      THEN /\ futures' = Resolve("login", "Err(User::login)")
           /\ UNCHANGED <<user, turtl_db>>
      ELSE /\ user' = LoggedIn
           /\ turtl_db' = Some(<<"turtl-user", Unwrap(LoggedIn.id)>>)
           /\ futures' = Resolve("login",
                                 IF create_user_db(LoggedIn, opened).ok
                                   THEN "Ok" ELSE "Err(create_user_db)")

\* The future of User::login resolves.  With an error the future of login
\* resolves with it.  Otherwise the and_then closure runs: create_user_db,
\* whose error is returned (try_fut!), and then *db_guard = Some(Arc::new(db)).
LoginAndThen(logged_in, opened) ==
    IF ~logged_in
      THEN /\ futures' = Resolve("login", "Err(User::login)")
           /\ UNCHANGED <<user, turtl_db>>
      ELSE LET created == create_user_db(LoggedIn, opened)
           IN /\ user' = LoggedIn
              /\ IF created.ok
                   THEN /\ turtl_db' = Some(created.val)
                        /\ futures' = Resolve("login", "Ok")
                   ELSE /\ futures' = Resolve("login", "Err(create_user_db)")
                        /\ UNCHANGED turtl_db

\* The main loop polls the login future once User::login has resolved.
LoginResolves ==
    /\ MainIdle
    /\ futures["login"] = "pending"
    /\ \E logged_in, opened \in BOOLEAN : LoginAndThen(logged_in, opened)
    /\ UNCHANGED <<sync_state, sync_config, bindings, mainq, main_pc, run,
                   invoked, joined, delivered, joinval, errlog>>
    /\ UNCHANGED notsession

\* Turtl::logout, the closure up to User::logout: trigger sync:shutdown with
\* Value::Bool(false).  One logout per behaviour.
Logout ==
    /\ MainIdle
    /\ futures["logout"] = "none"
    /\ TriggerSyncShutdown("false")
    /\ futures' = Resolve("logout", "pending")
    /\ UNCHANGED <<mainq, turtl_db>>
    /\ UNCHANGED notlife

\* try_fut!(User::logout(turtl.clone())): its error is returned; after a
\* success the user db is wiped: *db_guard = None.
UserLogout(logged_out) ==
    IF logged_out
      THEN /\ user' = NoUser
           /\ turtl_db' = None
           /\ futures' = Resolve("logout", "Ok")
      ELSE /\ futures' = Resolve("logout", "Err(User::logout)")
           /\ UNCHANGED <<user, turtl_db>>

\* Turtl::logout, the rest of the closure.
LogoutEnds ==
    /\ futures["logout"] = "pending"
    /\ \E logged_out \in BOOLEAN : UserLogout(logged_out)
    /\ UNCHANGED <<sync_state, sync_config, bindings, mainq, main_pc, run,
                   invoked, joined, delivered, joinval, errlog>>
    /\ UNCHANGED notsession

\* A sync:shutdown event with Value::Bool(true): the caller asks to wait for
\* the syncer threads.
ShutdownAndJoin ==
    /\ MainIdle
    /\ TriggerSyncShutdown("true")
    /\ UNCHANGED mainq
    /\ UNCHANGED <<turtl_db, futures>>
    /\ UNCHANGED notlife

TheState == Unwrap(sync_state)

\* One turn of the join loop: pop the last handle and wait for its thread to
\* end; with no handle left, leave the loop and empty sync_state.
JoinNext ==
    /\ main_pc = "join"
    /\ LET handles == TheState.join_handles
       IN IF handles /= <<>>
            THEN LET hn == handles[Len(handles)]
                 IN /\ run[hn] = "exited"
                    /\ joined' = joined \cup {hn}
                    /\ sync_state' = Some([TheState EXCEPT !.join_handles =
                                        SubSeq(handles, 1, Len(handles) - 1)])
                    /\ UNCHANGED main_pc
            ELSE /\ sync_state' = None
                 /\ main_pc' = "idle"
                 /\ UNCHANGED joined
    /\ UNCHANGED <<sync_config, bindings, mainq, run, invoked, delivered,
                   joinval, errlog>>
    /\ UNCHANGED <<turtl_db, futures>>
    /\ UNCHANGED notlife

\* A sync:pause event: if guard.is_some() { (state.pause)(); }
SyncPause ==
    /\ MainIdle
    /\ "turtl:sync:pause" \in bindings
    /\ invoked["pause"] + invoked["resume"] < MaxSignals
    /\ IF sync_state /= None
         THEN /\ invoked' = Invoke("pause")
              /\ sync_config' = pause(sync_config)
              /\ delivered' = "sync:pause"
         ELSE UNCHANGED <<invoked, sync_config, delivered>>
    /\ UNCHANGED <<sync_state, bindings, mainq, main_pc, run, joined, joinval,
                   errlog>>
    /\ UNCHANGED <<turtl_db, futures>>
    /\ UNCHANGED notlife

\* A sync:resume event: if guard.is_some() { (state.resume)(); }
SyncResume ==
    /\ MainIdle
    /\ "turtl:sync:resume" \in bindings
    /\ invoked["pause"] + invoked["resume"] < MaxSignals
    /\ IF sync_state /= None
         THEN /\ invoked' = Invoke("resume")
              /\ sync_config' = resume(sync_config)
              /\ delivered' = "sync:resume"
         ELSE UNCHANGED <<invoked, sync_config, delivered>>
    /\ UNCHANGED <<sync_state, bindings, mainq, main_pc, run, joined, joinval,
                   errlog>>
    /\ UNCHANGED <<turtl_db, futures>>
    /\ UNCHANGED notlife

Goto(s, pc) == run' = [run EXCEPT ![s] = pc]

\* RunnerLoop with the enabled flag left unread.
RunnerLoopIgnoresPause(s) ==
    /\ run[s] = "loop"
    /\ IF sync_config.quit THEN Goto(s, "exited") ELSE Goto(s, "tick")
    /\ UNCHANGED <<sync_state, sync_config, bindings, mainq, main_pc, invoked,
                   joined, delivered, joinval, errlog>>
    /\ UNCHANGED <<turtl_db, futures>>
    /\ UNCHANGED notlife

\* Top of a syncer's polling loop: leave it when the quit flag is set, sleep
\* when syncing is not enabled, otherwise call run_sync.
RunnerLoop(s) ==
    /\ run[s] = "loop"
    /\ IF sync_config.quit THEN Goto(s, "exited")
       ELSE IF ~sync_config.enabled THEN Goto(s, "sleep")
       ELSE Goto(s, "tick")
    /\ UNCHANGED <<sync_state, sync_config, bindings, mainq, main_pc, invoked,
                   joined, delivered, joinval, errlog>>
    /\ UNCHANGED <<turtl_db, futures>>
    /\ UNCHANGED notlife

\* RunSyncReturn with an error of run_sync ending the loop.
RunSyncReturnStopsOnError(s) ==
    /\ run[s] = "tick"
    /\ \E res \in RunSyncResults :
          IF res = "Err" THEN Goto(s, "exited") ELSE Goto(s, "sleep")
    /\ UNCHANGED <<sync_state, sync_config, bindings, mainq, main_pc, invoked,
                   joined, delivered, joinval, errlog>>
    /\ UNCHANGED <<turtl_db, futures>>
    /\ UNCHANGED notlife

\* run_sync returns to the loop, which catches an error.
RunSyncReturn(s) ==
    /\ run[s] = "tick"
    /\ \E res \in RunSyncResults :
          IF res = "Err" THEN Goto(s, "caught") ELSE Goto(s, "sleep")
    /\ UNCHANGED <<sync_state, sync_config, bindings, mainq, main_pc, invoked,
                   joined, delivered, joinval, errlog>>
    /\ UNCHANGED <<turtl_db, futures>>
    /\ UNCHANGED notlife

\* The loop logs the error it caught and goes on to sleep.
RunnerLog(s) ==
    /\ run[s] = "caught"
    /\ errlog' = errlog \cup {s}
    /\ Goto(s, "sleep")
    /\ UNCHANGED <<sync_state, sync_config, bindings, mainq, main_pc, invoked,
                   joined, delivered, joinval>>
    /\ UNCHANGED <<turtl_db, futures>>
    /\ UNCHANGED notlife

\* The sleep of get_delay() milliseconds ends: back to the top of the loop.
RunnerSleep(s) ==
    /\ run[s] = "sleep"
    /\ Goto(s, "loop")
    /\ UNCHANGED <<sync_state, sync_config, bindings, mainq, main_pc, invoked,
                   joined, delivered, joinval, errlog>>
    /\ UNCHANGED <<turtl_db, futures>>
    /\ UNCHANGED notlife

Runner(s) == RunnerLoop(s) \/ RunSyncReturn(s) \/ RunnerLog(s) \/ RunnerSleep(s)

LifeNext ==
    \/ StartSync
    \/ MainNext
    \/ AppShutdown
    \/ Logout
    \/ LogoutEnds
    \/ ShutdownAndJoin
    \/ JoinNext
    \/ SyncPause
    \/ SyncResume
    \/ \E s \in Syncers : RunnerLoop(s)
    \/ \E s \in Syncers : RunSyncReturn(s)
    \/ \E s \in Syncers : RunnerLog(s)
    \/ \E s \in Syncers : RunnerSleep(s)

LifeSpec == Init /\ [][LifeNext]_vars

\* Every syncer is a thread of its own and the main loop is one: a step any
\* of them can take is eventually taken.  Events (pause, resume, logout ...)
\* arrive or not.
LifeFairSpec ==
    /\ LifeSpec
    /\ \A s \in Syncers : WF_vars(Runner(s))
    /\ WF_vars(MainNext)
    /\ WF_vars(JoinNext)
    /\ WF_vars(LogoutEnds)

\* The session: login and logout next to the lifecycle of the sync system.
SessionNext ==
    \/ LifeNext
    \/ Login
    \/ LoginResolves

SessionSpec == Init /\ [][SessionNext]_vars


\* --------------------------------------------------------------- Carrier
\* The in-memory messaging system of src/carrier/src/lib.rs.  Every access
\* to the channel map, to a counter or to the MsQueue is one step (each is
\* atomic: a lock or a lock-free queue operation); a call of send, recv or
\* recv_nb is the sequence of its steps, interleaved with other threads'.

\* Number of messages the sender sends in one behaviour.
MaxMsgs == 2
\* Number of receive calls (recv or recv_nb) one receiver makes.
MaxCalls == 2

\* What the n-th call of the sender passes, as in tests::send_recv_simple:
\* bytes to send(), a String to send_string().  A String is the sequence of
\* its code points.
Arg(n) ==
    IF n % 2 = 1 THEN [op |-> "send", bytes |-> <<116, 0, 255>>]
    ELSE [op |-> "send_string", text |-> <<116, 233, 8364>>]

\* The UTF-8 encoding of one code point (up to three bytes).
Utf8(cp) ==
    IF cp < 128 THEN <<cp>>
    ELSE IF cp < 2048 THEN <<192 + (cp \div 64), 128 + (cp % 64)>>
    ELSE <<224 + (cp \div 4096), 128 + ((cp \div 64) % 64), 128 + (cp % 64)>>

\* message.as_bytes(): the UTF-8 bytes of a String.
RECURSIVE as_bytes(_)
as_bytes(text) ==
    IF text = <<>> THEN <<>> ELSE Utf8(Head(text)) \o as_bytes(Tail(text))

IsCont(b) == b >= 128 /\ b < 192

\* String::from_utf8: the String of well-formed UTF-8 bytes, or an error.
RECURSIVE from_utf8(_)
from_utf8(bytes) ==
    IF bytes = <<>> THEN Ok(<<>>)
    ELSE LET b == bytes[1]
             n == IF b < 128 THEN 1
                  ELSE IF b >= 194 /\ b < 224 THEN 2
                  ELSE IF b >= 224 /\ b < 240 THEN 3
                  ELSE 0
         IN IF n = 0 \/ Len(bytes) < n
                \/ \E i \in 2..n : ~IsCont(bytes[i])
              THEN Err
              ELSE LET cp == IF n = 1 THEN b
                             ELSE IF n = 2
                               THEN (b - 192) * 64 + (bytes[2] - 128)
                             ELSE (b - 224) * 4096 + (bytes[2] - 128) * 64
                                  + (bytes[3] - 128)
                       rest == from_utf8(SubSeq(bytes, n + 1, Len(bytes)))
                   IN IF n = 3 /\ cp < 2048 THEN Err
                      ELSE IF rest.ok THEN Ok(<<cp>> \o rest.val)
                      ELSE Err

\* The Vec<u8> that reaches send(): send_string converts its String first.
Message(n) ==
    [id |-> n,
     bytes |-> IF Arg(n).op = "send" THEN Arg(n).bytes
               ELSE as_bytes(Arg(n).text)]

\* Queue::new
QueueNew == [internal |-> <<>>, messages |-> 0, users |-> 0]

inc_messages(q, val) == [q EXCEPT !.messages = @ + val]
inc_users(q, val) == [q EXCEPT !.users = @ + val]

\* Carrier::ensure under the write lock of the map: the queue of the channel,
\* created and inserted when the channel has none.
ensure(map, objs, channel) ==
    IF map[channel] /= None
      THEN [queues |-> map, heap |-> objs, queue |-> Unwrap(map[channel])]
      ELSE [queues |-> [map EXCEPT ![channel] = Some(Len(objs) + 1)],
            heap |-> Append(objs, QueueNew),
            queue |-> Len(objs) + 1]

\* Carrier::exists
exists(map, channel) == map[channel] /= None

\* remove leaving the map as it is.
remove_nothing(map, channel) == map

\* Carrier::remove: whatever queue the name maps to leaves the map.
remove(map, channel) == [map EXCEPT ![channel] = None]

Locals(op, q, res, message) ==
    [op |-> op, queue |-> q, res |-> res, message |-> message]

NoLocalsOf(t) == [cloc EXCEPT ![t] = Locals("none", 0, None, NoMsg)]

At(t, pc) == cpc' = [cpc EXCEPT ![t] = pc]

TheQueue(t) == cloc[t].queue

SetQueue(t, q) == heap' = [heap EXCEPT ![TheQueue(t)] = q]

\* --- send(channel, message)
\* let queue = (*CONN).ensure(&String::from(channel));
SendEnsure(t, channel) ==
    /\ cpc[t] = "idle"
    /\ ccalls[t] < MaxMsgs
    /\ LET e == ensure(queues, heap, channel)
       IN /\ queues' = e.queues
          /\ heap' = e.heap
          /\ cloc' = [cloc EXCEPT ![t] =
                         Locals("send", e.queue, None, Message(ccalls[t] + 1))]
    /\ ccalls' = [ccalls EXCEPT ![t] = @ + 1]
    /\ At(t, "push")
    /\ UNCHANGED <<sent, received>>
    /\ UNCHANGED notcarrier

\* Queue::push, first half: self.internal.push(val)
SendPush(t) ==
    /\ cpc[t] = "push"
    /\ SetQueue(t, [heap[TheQueue(t)] EXCEPT
                       !.internal = Append(@, cloc[t].message)])
    /\ At(t, "inc_messages")
    /\ UNCHANGED <<queues, cloc, ccalls, sent, received>>
    /\ UNCHANGED notcarrier

\* Queue::push, second half: self.inc_messages(1); then send returns Ok(()).
SendCount(t) ==
    /\ cpc[t] = "inc_messages"
    /\ SetQueue(t, inc_messages(heap[TheQueue(t)], 1))
    /\ sent' = Append(sent, cloc[t].message.id)
    /\ cloc' = NoLocalsOf(t)
    /\ At(t, "idle")
    /\ UNCHANGED <<queues, ccalls, received>>
    /\ UNCHANGED notcarrier

\* --- recv(channel)
\* let queue = (*CONN).ensure(&String::from(channel));
RecvEnsure(t, channel) ==
    /\ cpc[t] = "idle"
    /\ ccalls[t] < MaxCalls
    /\ LET e == ensure(queues, heap, channel)
       IN /\ queues' = e.queues
          /\ heap' = e.heap
          /\ cloc' = [cloc EXCEPT ![t] = Locals("recv", e.queue, None, NoMsg)]
    /\ ccalls' = [ccalls EXCEPT ![t] = @ + 1]
    /\ At(t, "inc_users")
    /\ UNCHANGED <<sent, received>>
    /\ UNCHANGED notcarrier

\* Queue::pop: self.inc_users(1);
RecvListen(t) ==
    /\ cpc[t] = "inc_users"
    /\ SetQueue(t, inc_users(heap[TheQueue(t)], 1))
    /\ At(t, "pop")
    /\ UNCHANGED <<queues, cloc, ccalls, sent, received>>
    /\ UNCHANGED notcarrier

\* RecvPop handing out the head of the queue without taking it off.
RecvPopLeavesMessage(t) ==
    /\ cpc[t] = "pop"
    /\ heap[TheQueue(t)].internal /= <<>>
    /\ cloc' = [cloc EXCEPT ![t].res = Some(Head(heap[TheQueue(t)].internal))]
    /\ At(t, "dec_users")
    /\ UNCHANGED <<queues, heap, ccalls, sent, received>>
    /\ UNCHANGED notcarrier

\* Queue::pop: let res = self.internal.pop(); blocks while the queue is empty
RecvPop(t) ==
    /\ cpc[t] = "pop"
    /\ heap[TheQueue(t)].internal /= <<>>
    /\ cloc' = [cloc EXCEPT ![t].res = Some(Head(heap[TheQueue(t)].internal))]
    /\ SetQueue(t, [heap[TheQueue(t)] EXCEPT !.internal = Tail(@)])
    /\ At(t, "dec_users")
    /\ UNCHANGED <<queues, ccalls, sent, received>>
    /\ UNCHANGED notcarrier

\* Queue::pop: self.inc_users(-1);
RecvUnlisten(t) ==
    /\ cpc[t] = "dec_users"
    /\ SetQueue(t, inc_users(heap[TheQueue(t)], -1))
    /\ At(t, "dec_messages")
    /\ UNCHANGED <<queues, cloc, ccalls, sent, received>>
    /\ UNCHANGED notcarrier

\* Queue::pop: self.inc_messages(-1);
RecvCount(t) ==
    /\ cpc[t] = "dec_messages"
    /\ SetQueue(t, inc_messages(heap[TheQueue(t)], -1))
    /\ At(t, "num_messages")
    /\ UNCHANGED <<queues, cloc, ccalls, sent, received>>
    /\ UNCHANGED notcarrier

\* --- recv_nb(channel)
\* if !(*CONN).exists(&channel) { return Ok(None) }
NbExists(t, channel) ==
    /\ cpc[t] = "idle"
    /\ ccalls[t] < MaxCalls
    /\ ccalls' = [ccalls EXCEPT ![t] = @ + 1]
    /\ IF exists(queues, channel)
         THEN /\ cloc' = [cloc EXCEPT ![t] = Locals("recv_nb", 0, None, NoMsg)]
              /\ At(t, "ensure")
         ELSE UNCHANGED <<cloc, cpc>>
    /\ UNCHANGED <<queues, heap, sent, received>>
    /\ UNCHANGED notcarrier

\* let queue = (*CONN).ensure(&channel);
NbEnsure(t, channel) ==
    /\ cpc[t] = "ensure"
    /\ LET e == ensure(queues, heap, channel)
       IN /\ queues' = e.queues
          /\ heap' = e.heap
          /\ cloc' = [cloc EXCEPT ![t].queue = e.queue]
    /\ At(t, "try_pop")
    /\ UNCHANGED <<ccalls, sent, received>>
    /\ UNCHANGED notcarrier

\* Queue::try_pop: let res = self.internal.try_pop();
NbTryPop(t) ==
    /\ cpc[t] = "try_pop"
    /\ LET internal == heap[TheQueue(t)].internal
       IN IF internal /= <<>>
            THEN /\ cloc' = [cloc EXCEPT ![t].res = Some(Head(internal))]
                 /\ SetQueue(t, [heap[TheQueue(t)] EXCEPT !.internal = Tail(@)])
            ELSE UNCHANGED <<cloc, heap>>
    /\ At(t, "count")
    /\ UNCHANGED <<queues, ccalls, sent, received>>
    /\ UNCHANGED notcarrier

\* Queue::try_pop: inc_messages(-1) for a message, else messages = 0.
NbCount(t) ==
    /\ cpc[t] = "count"
    /\ SetQueue(t, IF cloc[t].res /= None
                     THEN inc_messages(heap[TheQueue(t)], -1)
                     ELSE [heap[TheQueue(t)] EXCEPT !.messages = 0])
    /\ At(t, "num_messages")
    /\ UNCHANGED <<queues, cloc, ccalls, sent, received>>
    /\ UNCHANGED notcarrier

\* --- the end of recv and of recv_nb
\* recv / recv_nb return `res`.
Return(t) ==
    /\ received' = IF cloc[t].res /= None
                     THEN Append(received,
                                 [by |-> t, op |-> cloc[t].op,
                                  msg |-> Unwrap(cloc[t].res)])
                     ELSE received
    /\ cloc' = NoLocalsOf(t)
    /\ At(t, "idle")

\* Queue::is_abandoned: self.num_messages() <= 0 && ...
NumMessages(t) ==
    /\ cpc[t] = "num_messages"
    /\ IF heap[TheQueue(t)].messages <= 0
         THEN /\ At(t, "num_users")
              /\ UNCHANGED <<cloc, received>>
         ELSE Return(t)
    /\ UNCHANGED <<queues, heap, ccalls, sent>>
    /\ UNCHANGED notcarrier

\* Queue::is_abandoned: ... && self.num_users() <= 0
NumUsers(t) ==
    /\ cpc[t] = "num_users"
    /\ IF heap[TheQueue(t)].users <= 0
         THEN /\ At(t, "remove")
              /\ UNCHANGED <<cloc, received>>
         ELSE Return(t)
    /\ UNCHANGED <<queues, heap, ccalls, sent>>
    /\ UNCHANGED notcarrier

\* if queue.is_abandoned() { (*CONN).remove(&channel); }  res
Remove(t, channel) ==
    /\ cpc[t] = "remove"
    /\ queues' = remove(queues, channel)
    /\ Return(t)
    /\ UNCHANGED <<heap, ccalls, sent>>
    /\ UNCHANGED notcarrier

\* The steps of thread t inside a call it has begun.
InCall(t) ==
    \/ SendPush(t) \/ SendCount(t)
    \/ RecvListen(t) \/ RecvPop(t) \/ RecvUnlisten(t) \/ RecvCount(t)
    \/ \E c \in Channels : NbEnsure(t, c)
    \/ NbTryPop(t) \/ NbCount(t)
    \/ NumMessages(t) \/ NumUsers(t)
    \/ \E c \in Channels : Remove(t, c)

CarrierNext ==
    \/ \E t \in Senders, c \in Channels : SendEnsure(t, c)
    \/ \E t \in Senders : SendPush(t)
    \/ \E t \in Senders : SendCount(t)
    \/ \E t \in Receivers, c \in Channels : RecvEnsure(t, c)
    \/ \E t \in Receivers : RecvListen(t)
    \/ \E t \in Receivers : RecvPop(t)
    \/ \E t \in Receivers : RecvUnlisten(t)
    \/ \E t \in Receivers : RecvCount(t)
    \/ \E t \in Pollers, c \in Channels : NbExists(t, c)
    \/ \E t \in Pollers, c \in Channels : NbEnsure(t, c)
    \/ \E t \in Pollers : NbTryPop(t)
    \/ \E t \in Pollers : NbCount(t)
    \/ \E t \in Receivers : NumMessages(t)
    \/ \E t \in Receivers : NumUsers(t)
    \/ \E t \in Receivers, c \in Channels : Remove(t, c)

CarrierSpec == Init /\ [][CarrierNext]_vars

\* Every thread is scheduled: a call that has begun goes on whenever it can.
\* Whether a thread begins another call is up to the thread.
CarrierFairSpec == CarrierSpec /\ \A t \in Threads : WF_vars(InCall(t))

\* ------------------------------------------------- the lock of turtl.profile
\* turtl.profile is a std::sync::RwLock.  find_model_key takes it for reading
\* and keeps the guard until it returns; Note::get_key_search, called inside,
\* takes it for reading again.  A thread that changes the profile takes it
\* for writing.  Every lock operation is one step.  Whether a writer that
\* waits for the lock blocks new readers depends on the platform's lock, and
\* RwLock promises neither answer: writer_priority is the answer of the
\* platform the program runs on.

\* Number of calls (of find_model_key, or changes of the profile) one thread
\* makes in one behaviour.
MaxProfileCalls == 2

\* profile.read() returns: no writer holds the lock, and no writer waits for
\* it where waiting writers go first.
CanRead(lock) ==
    /\ lock.writer = None
    /\ writer_priority => lock.waiting = {}

read(lock, t) == [lock EXCEPT !.readers[t] = @ + 1]

\* A read guard of thread t is dropped.
drop_read(lock, t) == [lock EXCEPT !.readers[t] = @ - 1]

\* profile.write() returns: nobody holds the lock.
CanWrite(lock) ==
    /\ lock.writer = None
    /\ \A t \in ProfileThreads : lock.readers[t] = 0

PcOf(t) == kthreads[t].pc

Step(t, pc) == kthreads' = [kthreads EXCEPT ![t].pc = pc]

\* find_model_key is called with a model: one that has a direct entry in the
\* keychain or not, and (a note) with a board id or a board reference or not.
FindModelKeyCall(t, direct, board) ==
    /\ PcOf(t) = "idle"
    /\ kthreads[t].calls < MaxProfileCalls
    /\ kthreads' = [kthreads EXCEPT ![t] =
                       [pc |-> "read", calls |-> @.calls + 1,
                        direct |-> direct, board |-> board]]
    /\ UNCHANGED <<profile_lock, writer_priority>>
    /\ UNCHANGED notlock

\* let profile_guard = self.profile.read().unwrap();
ReadProfile(t) ==
    /\ PcOf(t) = "read"
    /\ CanRead(profile_lock)
    /\ profile_lock' = read(profile_lock, t)
    /\ Step(t, "find_entry")
    /\ UNCHANGED writer_priority
    /\ UNCHANGED notlock

\* keychain.find_entry(model.id()): a hit returns the key and drops the
\* guard; otherwise model.get_key_search(self) is called.
FindEntry(t) ==
    /\ PcOf(t) = "find_entry"
    /\ IF kthreads[t].direct
         THEN /\ profile_lock' = drop_read(profile_lock, t)
              /\ Step(t, "idle")
         ELSE /\ Step(t, "read_spaces")
              /\ UNCHANGED profile_lock
    /\ UNCHANGED writer_priority
    /\ UNCHANGED notlock

\* get_key_search, space_ids is never empty:
\* let profile_guard = turtl.profile.read().unwrap();
ReadSpaces(t) ==
    /\ PcOf(t) = "read_spaces"
    /\ CanRead(profile_lock)
    /\ profile_lock' = read(profile_lock, t)
    /\ Step(t, "spaces")
    /\ UNCHANGED writer_priority
    /\ UNCHANGED notlock

\* The loop over profile_guard.spaces; the guard is dropped at the end of the
\* block.  Then `if board_ids.len() > 0`.
SpacesDone(t) ==
    /\ PcOf(t) = "spaces"
    /\ profile_lock' = drop_read(profile_lock, t)
    /\ Step(t, IF kthreads[t].board THEN "read_boards" ELSE "search")
    /\ UNCHANGED writer_priority
    /\ UNCHANGED notlock

\* let profile_guard = turtl.profile.read().unwrap();  (for the boards)
ReadBoards(t) ==
    /\ PcOf(t) = "read_boards"
    /\ CanRead(profile_lock)
    /\ profile_lock' = read(profile_lock, t)
    /\ Step(t, "boards")
    /\ UNCHANGED writer_priority
    /\ UNCHANGED notlock

\* The loop over profile_guard.boards; the guard is dropped.
BoardsDone(t) ==
    /\ PcOf(t) = "boards"
    /\ profile_lock' = drop_read(profile_lock, t)
    /\ Step(t, "search")
    /\ UNCHANGED writer_priority
    /\ UNCHANGED notlock

\* The rest of find_model_key (the walk over the encrypted keys); it returns
\* and its profile_guard is dropped.
FindModelKeyReturn(t) ==
    /\ PcOf(t) = "search"
    /\ profile_lock' = drop_read(profile_lock, t)
    /\ Step(t, "idle")
    /\ UNCHANGED writer_priority
    /\ UNCHANGED notlock

\* A change of the profile begins (login, logout, a key is added):
\* turtl.profile.write() is called and waits for the lock.
WriteProfileCall(t) ==
    /\ PcOf(t) = "idle"
    /\ kthreads[t].calls < MaxProfileCalls
    /\ kthreads' = [kthreads EXCEPT ![t].pc = "write", ![t].calls = @ + 1]
    /\ profile_lock' = [profile_lock EXCEPT !.waiting = @ \cup {t}]
    /\ UNCHANGED writer_priority
    /\ UNCHANGED notlock

\* let mut profile_guard = turtl.profile.write().unwrap();
WriteProfile(t) ==
    /\ PcOf(t) = "write"
    /\ CanWrite(profile_lock)
    /\ profile_lock' = [profile_lock EXCEPT !.writer = Some(t),
                                            !.waiting = @ \ {t}]
    /\ Step(t, "writing")
    /\ UNCHANGED writer_priority
    /\ UNCHANGED notlock

\* The profile is changed; drop(profile_guard);
WriteProfileDone(t) ==
    /\ PcOf(t) = "writing"
    /\ profile_lock' = [profile_lock EXCEPT !.writer = None]
    /\ Step(t, "idle")
    /\ UNCHANGED writer_priority
    /\ UNCHANGED notlock

\* The steps of thread t inside a call it has begun.
InProfileCall(t) ==
    \/ ReadProfile(t) \/ FindEntry(t) \/ ReadSpaces(t) \/ SpacesDone(t)
    \/ ReadBoards(t) \/ BoardsDone(t) \/ FindModelKeyReturn(t)
    \/ WriteProfile(t) \/ WriteProfileDone(t)

LockNext ==
    \/ \E t \in Resolvers, direct, board \in BOOLEAN :
          FindModelKeyCall(t, direct, board)
    \/ \E t \in Resolvers : ReadProfile(t)
    \/ \E t \in Resolvers : FindEntry(t)
    \/ \E t \in Resolvers : ReadSpaces(t)
    \/ \E t \in Resolvers : SpacesDone(t)
    \/ \E t \in Resolvers : ReadBoards(t)
    \/ \E t \in Resolvers : BoardsDone(t)
    \/ \E t \in Resolvers : FindModelKeyReturn(t)
    \/ \E t \in Writers : WriteProfileCall(t)
    \/ \E t \in Writers : WriteProfile(t)
    \/ \E t \in Writers : WriteProfileDone(t)

\* The program runs on a platform whose lock has one policy or the other.
LockInit ==
    /\ SyncInit /\ KeyIdle /\ LifeIdle /\ CarrierIdle /\ PoolIdle
    /\ profile_lock = Unlocked
    /\ writer_priority \in BOOLEAN
    /\ kthreads = [t \in ProfileThreads |-> NoCall]

LockSpec == LockInit /\ [][LockNext]_vars

\* Every thread is scheduled: a call that has begun goes on whenever it can.
LockFairSpec ==
    LockSpec /\ \A t \in ProfileThreads : WF_vars(InProfileCall(t))

\* ------------------------------------------------------ the worker pools
\* Turtl::new creates two Thredders, each a thin layer over a CpuPool: `work`
\* with num_cpus::get() - 1 workers and `async` with 2.  run_async hands a
\* closure to the pool and returns its future; a worker thread of the pool
\* takes the closure, runs it, and the future resolves with what it returned.

\* Largest number of CPUs of a host.
MaxCpus == 3
\* Number of units of work submitted in one behaviour.
MaxTasks == 2

\* let num_workers = num_cpus::get() - 1;
num_workers(n) == n - 1

\* The worker count each Thredder is created with.
Workers(p, n) == IF p = "work" THEN num_workers(n) ELSE 2

\* What CpuPool::new(0) does is the pool library's business: it refuses the
\* size (a panic inside Turtl::new) or makes a pool that has no thread.
NewOutcomes(workers) == IF workers = 0 THEN {"panicked", "pool"} ELSE {"pool"}

\* CpuPool::new(workers as usize)
CpuPoolNew(workers, outcome) ==
    [state |-> outcome,
     workers |-> IF outcome = "pool" THEN workers ELSE 0,
     queue |-> <<>>,
     running |-> {}]

\* Thredder::new(name, workers)
ThredderNew(workers, outcome) == CpuPoolNew(workers, outcome)

\* Turtl::new: the `work` Thredder, then the `async` Thredder, which is not
\* created when the first panicked.
TurtlNew ==
    /\ \A p \in Pools : pools[p].state = "none"
    /\ pools["work"].queue = <<>>
    /\ \E outcome \in NewOutcomes(Workers("work", num_cpus)) :
          LET work == ThredderNew(Workers("work", num_cpus), outcome)
          IN pools' = [p \in Pools |->
                         IF p = "work" THEN work
                         ELSE IF work.state = "panicked"
                           THEN [NoPool EXCEPT !.state = "panicked"]
                         ELSE ThredderNew(Workers(p, num_cpus), "pool")]
    /\ UNCHANGED <<num_cpus, spawned>>
    /\ UNCHANGED notpool

\* Thredder::run_async (and the first half of run): self.pool.spawn_fn(run)
RunAsync(p) ==
    /\ pools[p].state = "pool"
    /\ Len(spawned) < MaxTasks
    /\ spawned' = Append(spawned, [pool |-> p, res |-> "pending"])
    /\ pools' = [pools EXCEPT ![p].queue = Append(@, Len(spawned) + 1)]
    /\ UNCHANGED num_cpus
    /\ UNCHANGED notpool

\* A thread of the pool that has nothing to do takes the next closure.
WorkerTakes(p) ==
    /\ pools[p].queue /= <<>>
    /\ Cardinality(pools[p].running) < pools[p].workers
    /\ pools' = [pools EXCEPT ![p].queue = Tail(@),
                              ![p].running = @ \cup {Head(pools[p].queue)}]
    /\ UNCHANGED <<num_cpus, spawned>>
    /\ UNCHANGED notpool

\* The closure returns a value or a typed error (TResult<T>): the future
\* resolves with it.
WorkerReturns(p) ==
    /\ \E task \in pools[p].running, res \in {"Ok", "Err"} :
          /\ pools' = [pools EXCEPT ![p].running = @ \ {task}]
          /\ spawned' = [spawned EXCEPT ![task].res = res]
    /\ UNCHANGED num_cpus
    /\ UNCHANGED notpool

PoolNext ==
    \/ TurtlNew
    \/ \E p \in Pools : RunAsync(p)
    \/ \E p \in Pools : WorkerTakes(p)
    \/ \E p \in Pools : WorkerReturns(p)

\* The host has one CPU or more.
PoolInit ==
    /\ SyncInit /\ KeyIdle /\ LifeIdle /\ CarrierIdle /\ LockIdle
    /\ num_cpus \in 1..MaxCpus
    /\ pools = [p \in Pools |-> NoPool]
    /\ spawned = <<>>

PoolSpec == PoolInit /\ [][PoolNext]_vars

\* The threads of a pool run: a closure that can be taken is taken, and a
\* closure that runs returns.
PoolFairSpec ==
    /\ PoolSpec
    /\ WF_vars(TurtlNew)
    /\ \A p \in Pools : WF_vars(WorkerTakes(p)) /\ WF_vars(WorkerReturns(p))


\* ------------------------------------------------------------ properties
IsHead(r, db) == \A s \in db : r.id <= s.id

AppliedIds == {applied[i] : i \in DOMAIN applied}

Uploading == cur /= {}

\* C1: while the file syncer is uploading record R (from the moment it is
\* dequeued until the tick returns), R is a FileOutgoing record and no record
\* with a smaller id is present in the sync queue.
C1_NoUploadPastOlderRecord ==
    Uploading =>
        /\ TheSync.ty = "FileOutgoing"
        /\ \A r \in queue : r.id >= TheSync.id

\* An upload of the second record is streaming after the first one has left
\* the queue.
C1_Witness ==
    /\ fpc = "stream"
    /\ TheSync.id = 2
    /\ TheSync.id \in Ids(queue)

\* C2: the ids applied to the remote API never decrease: an API call is only
\* started for the record with the smallest id of the queue, only for the one
\* record the tick dequeued, and after a failed application the tick ends
\* without applying anything else, every record staying queued.
NonDecreasing(log) == \A i, j \in DOMAIN log : i <= j => log[i] <= log[j]

ApiCallStarts == calls = <<>> /\ calls' /= <<>>

C2_Step ==
    /\ NonDecreasing(applied')
    /\ applied' /= applied => ApiCallStarts
    /\ ApiCallStarts =>
          /\ Uploading
          /\ applied' /= <<>>
          /\ applied'[Len(applied')] = TheSync.id
          /\ \A r \in queue : r.id >= TheSync.id
    /\ (fpc = "failed" /\ fpc' /= "failed") =>
          /\ fpc' = "idle"
          /\ applied' = applied
          /\ Ids(queue') = Ids(queue)

C2_AppliedInIdOrder == [][C2_Step]_vars

\* Record 1 was applied, then record 2, whose first application failed and
\* left it queued.
C2_Witness ==
    /\ applied = <<1, 2>>
    /\ \E r \in queue : r.id = 2 /\ r.errcount = 1
    /\ fpc = "idle"

\* C3: get_next_outgoing_file_sync returns record R exactly when R is the
\* head of the whole queue, is of type FileOutgoing and is not frozen; with
\* an empty queue, another type at the head or a frozen head it returns none;
\* it never returns a record that is not the head (a failed read of the table
\* returns the error and no record).
C3_NextIsUnfrozenFileHead ==
    LET got == get_next_outgoing_file_sync(queue, TRUE)
        failed == get_next_outgoing_file_sync(queue, FALSE)
        eligible == {r \in queue : /\ IsHead(r, queue)
                                   /\ r.ty = "FileOutgoing"
                                   /\ ~r.frozen}
    IN /\ got.ok
       /\ got.val = eligible
       /\ Cardinality(got.val) <= 1
       /\ ~failed.ok /\ failed.val = {}

\* The tick found a frozen file record at the head, with a file record that
\* is not frozen behind it, and returned without dequeuing anything.
C3_Witness ==
    /\ fpc = "idle"
    /\ file_ret = "Ok"
    /\ \E r \in queue : IsHead(r, queue) /\ r.ty = "FileOutgoing" /\ r.frozen
    /\ \E r \in queue : ~IsHead(r, queue) /\ r.ty = "FileOutgoing" /\ ~r.frozen
    /\ next_id > MaxId

\* C4: from a queue holding the Add record of note A (id 1) followed by the
\* FileOutgoing record of A (id 2), the ticks of the two syncers lead to an
\* empty queue with exactly one sync:file:uploaded event, carrying A (unless
\* a storage or API failure shows up on the way).
ScenarioStart ==
    /\ queue = {SyncRecord(1, <<"Note", "add">>, "A"),
                SyncRecord(2, <<"FileOutgoing", "add">>, "A")}
    /\ events = <<>>
    /\ fpc = "idle"
    /\ opc = "idle"

ScenarioDone == queue = {} /\ events = <<"A">>

FailureSeen == file_ret = "Err" \/ \E r \in queue : r.errcount > 0

C4_ScenarioDrains == ScenarioStart ~> (ScenarioDone \/ FailureSeen)

\* C5: when a tick of the generic syncer returns, every Note record it read
\* into `syncs` has been applied to the remote API and deleted from the queue.
Range(seq) == {seq[i] : i \in DOMAIN seq}

OutTickReturns == opc = "partitioned" /\ opc' = "idle"

C5_Step ==
    OutTickReturns =>
        \A r \in queue :
            (r.ty = "Note" /\ r.id \in Range(out_syncs)) =>
                /\ r.id \in {applied'[i] : i \in DOMAIN applied'}
                /\ r.id \notin Ids(queue')

C5_GenericRecordsApplied == [][C5_Step]_vars

\* C6: a sync:file:uploaded event is emitted only by a tick whose upload
\* succeeded, only after that tick deleted the queue record, and it carries
\* the record's item_id; a record leaves the queue only by the delete of a
\* tick whose upload succeeded; a tick whose upload succeeded and that
\* returns Ok has deleted the record and emitted the event; the failure
\* branch deletes nothing and emits nothing.
C6_Step ==
    /\ events' /= events =>
          /\ Uploading
          /\ upload_res = "Ok"
          /\ TheSync.id \notin Ids(queue)
          /\ events' = events \o <<TheSync.item_id>>
          /\ queue' = queue
    /\ Ids(queue) \ Ids(queue') /= {} =>
          /\ Uploading
          /\ upload_res = "Ok"
          /\ Ids(queue) \ Ids(queue') = {TheSync.id}
          /\ events' = events
    /\ (upload_res = "Ok" /\ fpc' = "idle" /\ file_ret' = "Ok") =>
          /\ TheSync.id \notin Ids(queue')
          /\ events' = events \o <<TheSync.item_id>>
    /\ (fpc = "failed" /\ fpc' = "idle") =>
          /\ events' = events
          /\ Ids(queue') = Ids(queue)

C6_DeleteThenEventOnSuccess == [][C6_Step]_vars

\* The upload of B's file succeeded after A's: both records are gone and the
\* two events were emitted in that order.
C6_Witness ==
    /\ events = <<"A", "B">>
    /\ queue = {}
    /\ fpc = "idle"
    /\ file_ret = "Ok"

\* C7: a failure of any step of the upload closure leads to the failure
\* branch, which hands the record, with the error set on it, to the
\* failed-sync handler once, deletes nothing and returns Ok: the stored
\* record then carries the error and one more counted failure.  (If the
\* handler itself fails, its error is what upload_file returns and the queue
\* is as before.)
StoredSync(db) == CHOOSE r \in db : r.id = TheSync.id

C7_Step ==
    /\ (upload_res = "none" /\ upload_res' \notin {"none", "Ok"}) =>
          /\ fpc' = "failed"
          /\ upload_res' \in {"NotFound", "Io", "Api", "Msg"}
          /\ queue' = queue
    /\ (fpc = "failed" /\ fpc' /= "failed") =>
          /\ fpc' = "idle"
          /\ Ids(queue') = Ids(queue)
          /\ \/ /\ file_ret' = "Ok"
                /\ StoredSync(queue').error = upload_res
                /\ StoredSync(queue').errcount = StoredSync(queue).errcount + 1
                /\ \A r \in queue : r.id /= TheSync.id => r \in queue'
             \/ /\ file_ret' = "Err"
                /\ queue' = queue

C7_FailureHandledOnce == [][C7_Step]_vars

\* A short write failed the upload of a record once: the record is still
\* queued, carries the error, and the tick returned Ok.
C7_Witness ==
    /\ fpc = "idle"
    /\ file_ret = "Ok"
    /\ \E r \in queue : r.errcount = 1 /\ r.error = "Msg" /\ ~r.frozen

\* C8: a record is frozen exactly when its counted failures have passed the
\* threshold; a frozen record is never handed out by next() again (it is not
\* dequeued and its failure count stops growing) and it stays in the queue,
\* unchanged.
C8_Step ==
    /\ \A r \in queue' :
          /\ r.frozen <=> r.errcount > MaxAllowedFailures
          /\ r.errcount <= MaxAllowedFailures + 1
    /\ \A r \in queue : r.frozen => r \in queue'
    /\ cur' /= cur =>
          \A s \in cur' : \A r \in queue' : r.id = s.id => ~r.frozen

C8_FrozenPastThreshold == [][C8_Step]_vars

\* The only record of the queue has failed until it was frozen, and a later
\* tick has returned without touching it.
C8_Witness ==
    /\ Cardinality(queue) = 1
    /\ \E r \in queue : r.frozen /\ r.errcount = MaxAllowedFailures + 1
    /\ fpc = "idle"
    /\ file_ret = "Ok"
    /\ next_id > MaxId

\* C9 as stated: when a frozen record is the oldest record, a file record
\* behind it that is not frozen is eventually applied.
FrozenHead == \E r \in queue : IsHead(r, queue) /\ r.frozen

BehindFrozenHead(id) ==
    /\ FrozenHead
    /\ \E r \in queue :
          r.id = id /\ ~IsHead(r, queue) /\ ~r.frozen /\ r.ty = "FileOutgoing"

C9_BehindFrozenHeadApplied ==
    \A id \in 1..MaxId : BehindFrozenHead(id) ~> (id \in AppliedIds)

\* C9, amended: while a frozen record is the oldest record the file syncer
\* dequeues nothing: no record leaves the queue or changes, nothing is
\* applied to the API, no event is emitted, the frozen record stays.
C9_Step ==
    FrozenHead =>
        /\ queue \subseteq queue'
        /\ applied' = applied
        /\ events' = events
        /\ fpc = "idle" /\ fpc' = "idle"

C9_FrozenHeadBlocksQueue == [][C9_Step]_vars

\* Both drainers have ticked on a queue with a frozen head and a file record
\* behind it: the generic syncer read both records, the file syncer returned
\* without dequeuing, and both records are still queued.
C9_Witness ==
    /\ BehindFrozenHead(2)
    /\ opc = "partitioned"
    /\ out_syncs = <<1, 2>>
    /\ fpc = "idle"
    /\ file_ret = "Ok"
    /\ applied = <<1>>

\* C10: the upload loop writes the file in chunks of at most 4096 bytes, each
\* written in full: when the loop has ended (call_end comes next) it has made
\* ceil(N / 4096) writes that sum to the N bytes of the file; a write whose
\* count differs from the bytes requested is the last API call of the
\* attempt (no further chunk, no call_end).
RECURSIVE SumReq(_)
SumReq(log) ==
    IF log = <<>> THEN 0 ELSE log[1].req + SumReq(Tail(log))

IsWrite(call) == call.op = "write"

Writes == SelectSeq(calls, IsWrite)

CeilDiv(n, d) == (n + d - 1) \div d

C10_ChunkedUpload ==
    /\ \A i \in DOMAIN calls :
          /\ calls[i].op = "write" => calls[i].req \in 1..BufSize
          /\ (calls[i].op = "write" /\ calls[i].ret /= calls[i].req) =>
                /\ i = Len(calls)
                /\ fpc = "failed"
          /\ calls[i].op = "call_end" =>
                /\ i = Len(calls)
                /\ Len(Writes) = Len(calls) - 2
    /\ fpc = "stream" => SumReq(Writes) = file_len - remaining
    /\ fpc = "finish" =>
          /\ remaining = 0
          /\ Len(Writes) = CeilDiv(file_len, BufSize)
          /\ SumReq(Writes) = file_len

\* A file of one buffer and one byte has been streamed in two writes.
C10_Witness ==
    /\ fpc = "finish"
    /\ file_len = BufSize + 1
    /\ Len(Writes) = 2
    /\ Writes[2].req = 1

\* C11: when the local file of the record is not found, or cannot be opened,
\* the upload closure fails (with NotFound, or with the Io error of the open)
\* before any API call is started: the attempt has made no call_start, no
\* write and no call_end, and it makes none until the tick returns.
LocalFileFailure ==
    /\ fpc = "closure"
    /\ fpc' = "failed"
    /\ upload_res' \in {"NotFound", "Io"}

C11_Step ==
    /\ LocalFileFailure =>
          /\ calls' = <<>>
          /\ applied' = applied
    /\ (fpc = "closure" /\ calls' /= <<>>) =>
          upload_res' \notin {"NotFound", "Io"}
    /\ (fpc = "failed" /\ calls = <<>>) => calls' = <<>>

C11_NoApiCallWithoutLocalFile == [][C11_Step]_vars

\* The file of the second record was not found: the closure has failed and no
\* API call was made, the record not being counted as applied.
C11_Witness ==
    /\ fpc = "failed"
    /\ upload_res = "NotFound"
    /\ calls = <<>>
    /\ TheSync.id = 2
    /\ applied = <<1>>

\* C12: every structural failure of an upload attempt is set on the stored
\* record as its error and counted toward the freeze threshold: the tick that
\* finds SyncConfig.user_id missing, and the tick whose local file is not
\* found, leave the record with one more counted failure, frozen once the
\* count has passed the threshold.
Counted(e) ==
    /\ TheSync.id \in Ids(queue')
    /\ StoredSync(queue').error = e
    /\ StoredSync(queue').errcount = StoredSync(queue).errcount + 1
    /\ StoredSync(queue').frozen =
          (StoredSync(queue').errcount > MaxAllowedFailures)

MissingUserIdReturn == fpc = "upload" /\ fpc' = "idle"

MissingFileReturn ==
    /\ fpc = "failed"
    /\ upload_res = "NotFound"
    /\ fpc' = "idle"
    /\ file_ret' = "Ok"

C12_Step ==
    /\ MissingUserIdReturn => Counted("MissingField")
    /\ MissingFileReturn => Counted("NotFound")

C12_StructuralFailuresCounted == [][C12_Step]_vars

\* C13: after a successful upload the sync ids of the response, and only
\* those, are registered with ignore_on_next while the record is still
\* queued; a failure of the registration registers nothing and is dropped:
\* the tick goes on to the delete whatever the outcome, so that a tick whose
\* upload succeeded returns an error only from the delete or the event, and
\* returns Ok with the record deleted and the event emitted otherwise.
\* Without ids in the response nothing is registered.
ResponseIds == IF sync_ids = {} THEN {} ELSE CHOOSE ids \in sync_ids : TRUE

C13_Step ==
    /\ (fpc = "ok" /\ fpc' /= "ok") =>
          /\ fpc' = "delete"
          /\ TheSync.id \in Ids(queue) => TheSync.id \in Ids(queue')
          /\ events' = events
          /\ file_ret' = file_ret
          /\ ignored' \in {ignored, ignored \cup ResponseIds}
    /\ ignored' /= ignored =>
          /\ fpc = "ok"
          /\ sync_ids /= {}
          /\ ignored' = ignored \cup ResponseIds
    /\ (upload_res = "Ok" /\ fpc' = "idle") =>
          /\ fpc \in {"delete", "notify"}
          /\ file_ret' = "Ok" =>
                /\ TheSync.id \notin Ids(queue')
                /\ events' = events \o <<TheSync.item_id>>

C13_IgnoreErrorsSwallowed == [][C13_Step]_vars

\* The response carried the ids, their registration failed, and the tick has
\* gone on: the record is deleted and the event comes next.
C13_Witness ==
    /\ fpc = "notify"
    /\ sync_ids /= {}
    /\ ResponseIds \cap ignored = {}
    /\ TheSync.id \notin Ids(queue)

\* C14: the sync:file:uploaded event is best-effort: a tick whose upload
\* succeeded and whose record is deleted returns Ok whether or not the event
\* could be emitted.
NotifyReturns == fpc = "notify" /\ fpc' = "idle"

C14_Step ==
    NotifyReturns =>
        /\ TheSync.id \notin Ids(queue')
        /\ file_ret' = "Ok"

C14_EventIsBestEffort == [][C14_Step]_vars

\* ---------------------------------------------- key resolver properties
\* The call of find_model_key has returned.
Returned == kret /= None

Ret == Unwrap(kret)

\* The keys the keychain kc holds for item id.
KeysFor(kc, id) == {kc[i].k : i \in {j \in DOMAIN kc : kc[j].id = id}}

\* The keys the profile keychain holds for the model's own id.
DirectKeys == IF kmodel.id = None THEN {} ELSE KeysFor(keychain, Unwrap(kmodel.id))

IsDecrypt(op) == op.op = "decrypt"

Decrypts == SelectSeq(ktrace, IsDecrypt)

Searched == \E i \in DOMAIN ktrace : ktrace[i].op = "get_key_search"

\* C15: for a model whose id has an entry in the profile keychain,
\* find_model_key returns Ok with exactly that entry's key and sets it on the
\* model; the only thing it did is the lookup of the model's id: no search
\* keychain was built and nothing was decrypted.
C15_DirectEntryReturned ==
    (Returned /\ DirectKeys /= {}) =>
        /\ Ret.ok
        /\ Ret.val /= None
        /\ Ret.val \subseteq DirectKeys
        /\ kmodel.key = Ret.val
        /\ ktrace = <<Op("find_entry", Unwrap(kmodel.id))>>

\* A note with two key references and an entry of its own in the keychain
\* got the entry's key.
C15_Witness ==
    /\ Returned
    /\ DirectKeys = {"k1"}
    /\ Len(kmodel.keys) = MaxRefs
    /\ kmodel.key = Some("k1")
    /\ boards /= <<>>

\* C16: for a model without an entry of its own, find_model_key goes through
\* the model's key references (those that carry an encrypted key) in order,
\* and for each tries the key of the referenced id's keychain entry, then the
\* keys the search keychain (with the user's key) holds for that id; it
\* returns, and sets on the model, what the first key that decrypts yields;
\* every candidate before that one was tried and failed, none after it was
\* tried; without a key that decrypts it returns Ok(None) after trying all.
KeyRefs ==
    SelectSeq([i \in DOMAIN kmodel.keys |->
                  keyref_from_encrypted(kmodel.keys[i])], HasK)

SearchSet ==
    LET search == get_key_search(kmodel, spaces, boards)
    IN IF user.id /= None /\ user.key /= None
         THEN search \o <<KeychainEntry(Unwrap(user.id), "user",
                                        Unwrap(user.key))>>
         ELSE search

\* The keys tried for a key reference to item id, in order.
Candidates(id, search) ==
    LET direct == SelectSeq(keychain, LAMBDA e : e.id = id)
        found == SelectSeq(search, LAMBDA e : e.id = id)
    IN (IF direct = <<>> THEN <<>> ELSE <<direct[1].k>>)
          \o [n \in DOMAIN found |-> found[n].k]

Before(a, b) == a[1] < b[1] \/ (a[1] = b[1] /\ a[2] < b[2])

\* What the walk has to come to, stated over all candidates at once: slot
\* <<i, j>> is the j-th candidate of the i-th key reference; it wins if that
\* key is the one the reference's encrypted key was wrapped under.
Walk ==
    LET refs == KeyRefs
        search == SearchSet
        cands == [i \in DOMAIN refs |-> Candidates(refs[i].id, search)]
        slots == UNION {{<<i, n>> : n \in DOMAIN cands[i]} : i \in DOMAIN refs}
        winners == {a \in slots : refs[a[1]].k.under = cands[a[1]][a[2]]}
        first == IF winners = {} THEN <<0, 0>>
                 ELSE CHOOSE a \in winners :
                         \A b \in winners : a = b \/ Before(a, b)
    IN [slots |-> Cardinality(slots),
        won |-> winners /= {},
        first |-> first,
        tried |-> Cardinality({a \in slots : Before(a, first)}) + 1,
        with |-> IF winners = {} THEN "" ELSE cands[first[1]][first[2]],
        key |-> IF winners = {} THEN None ELSE Some(refs[first[1]].k.plain)]

C16_FirstDecryptWins ==
    (Returned /\ DirectKeys = {}) =>
        LET walk == Walk
            decrypts == Decrypts
        IN /\ Ret.ok
           /\ Ret.val = walk.key
           /\ IF walk.won
                THEN /\ kmodel.key = walk.key
                     /\ Len(decrypts) = walk.tried
                     /\ decrypts[Len(decrypts)].arg = walk.with
                ELSE Len(decrypts) = walk.slots

\* The key wrapped in the second reference was returned after both keys held
\* for the first reference (the keychain's and the loaded board's) had failed
\* to decrypt that one.
C16_Witness ==
    /\ Returned
    /\ DirectKeys = {}
    /\ Len(Decrypts) = 3
    /\ Walk.first = <<2, 1>>
    /\ kmodel.key = Some("k2")

\* C17: the search keychain Note.get_key_search builds holds exactly the
\* loaded spaces that have an id and a key and whose id is the note's
\* space_id or is referenced by an "s" entry of its keys list, and the loaded
\* boards that have an id and a key and whose id is the note's board_id or is
\* referenced by a "b" entry, each with its key, once, and nothing else; so
\* with an empty profile keychain a note resolves its key whenever one of its
\* key references points at a loaded board or space and is wrapped under the
\* key that board or space carries.
Loaded(items, ids) ==
    {<<Unwrap(items[i].id), Unwrap(items[i].key)>> :
        i \in {j \in DOMAIN items : /\ items[j].id /= None
                                    /\ items[j].key /= None
                                    /\ items[j].id \subseteq ids}}

RefIds(field) ==
    {kmodel.keys[i][field] :
        i \in {j \in DOMAIN kmodel.keys : field \in DOMAIN kmodel.keys[j]}}

WantedSearch ==
    Loaded(spaces, {kmodel.space_id} \cup RefIds("s"))
        \cup Loaded(boards, kmodel.board_id \cup RefIds("b"))

NoteSearch == get_key_search(kmodel, spaces, boards)

\* Some key reference points at a loaded board or space and is wrapped under
\* the key it carries.
ReferencesLoaded ==
    \E i \in DOMAIN kmodel.keys :
        /\ "k" \in DOMAIN kmodel.keys[i]
        /\ \/ /\ "b" \in DOMAIN kmodel.keys[i]
              /\ <<kmodel.keys[i].b, kmodel.keys[i].k.under>>
                    \in Loaded(boards, {kmodel.keys[i].b})
           \/ /\ "s" \in DOMAIN kmodel.keys[i]
              /\ <<kmodel.keys[i].s, kmodel.keys[i].k.under>>
                    \in Loaded(spaces, {kmodel.keys[i].s})

C17_SearchFromLoadedSpacesAndBoards ==
    LET search == NoteSearch
        wanted == WantedSearch
    IN /\ {<<search[i].id, search[i].k>> : i \in DOMAIN search} = wanted
       /\ Len(search) = Cardinality(wanted)
       /\ (Returned /\ keychain = <<>> /\ ReferencesLoaded) =>
             /\ Ret.ok
             /\ Ret.val /= None
             /\ kmodel.key = Ret.val
             /\ \E i \in DOMAIN kmodel.keys :
                   /\ "k" \in DOMAIN kmodel.keys[i]
                   /\ Ret.val = Some(kmodel.keys[i].k.plain)

\* With an empty keychain, a note that is on no board itself got its key
\* through its reference to the loaded board B, while the loaded space S,
\* which the note does not name, stayed out of the search.
C17_Witness ==
    /\ Returned
    /\ keychain = <<>>
    /\ kmodel.board_id = None
    /\ kmodel.space_id = "S0"
    /\ kmodel.keys = <<[b |-> "B", k |-> Enc("kB", "k1")]>>
    /\ spaces /= <<>>
    /\ WantedSearch = {<<"B", "kB">>}
    /\ kmodel.key = Some("k1")

\* C18: for a model that has an id, no keychain entry of its own and no key
\* reference that decrypts under any key of the keychain or of the search
\* keychain (a model without key references included), find_model_key
\* returns Ok(None), not an error, and leaves the model as it was.
Calling == kret = None /\ kret' /= None

AllKeys == {keychain[i].k : i \in DOMAIN keychain}
              \cup {SearchSet[i].k : i \in DOMAIN SearchSet}

Unresolvable ==
    \A i \in DOMAIN KeyRefs : KeyRefs[i].k.under \notin AllKeys

C18_Step ==
    (Calling /\ kmodel.id /= None /\ DirectKeys = {} /\ Unresolvable) =>
        /\ kret' = Some(Ok(None))
        /\ kmodel' = kmodel

C18_MissIsSoft == [][C18_Step]_vars

\* A note that came with a key and two key references, neither of them
\* decrypting under a key held, got Ok(None) and kept its key.
C18_Witness ==
    /\ kret = Some(Ok(None))
    /\ kmodel.id /= None
    /\ Len(KeyRefs) = MaxRefs
    /\ Len(Decrypts) >= 1
    /\ kmodel.key = Some("k0")

\* C19: find_model_key on a model without an id returns an error: neither a
\* key nor Ok(None).
C19_NoIdIsHardError ==
    (Returned /\ kmodel.id = None) => ~Ret.ok

\* C20: for a model that already carries a key, find_model_key returns that
\* key and leaves it on the model, without any lookup or decrypt.
C20_Step ==
    (Calling /\ kmodel.key /= None) =>
        /\ kret' = Some(Ok(kmodel.key))
        /\ kmodel' = kmodel
        /\ ktrace' = <<>>

C20_KeyedModelFastPath == [][C20_Step]_vars

\* C21: find_model_key returns after a single pass over the model's own key
\* references, also when the references of the model and of a loaded board
\* form a cycle: it looks up the model's id and the ids its references name
\* and nothing else, and the decrypts it makes number at most the sum, over
\* the references, of 1 plus the entries the search keychain holds for the
\* referenced id.
RECURSIVE SumOver(_, _)
SumOver(f, n) == IF n = 0 THEN 0 ELSE f[n] + SumOver(f, n - 1)

DecryptBound ==
    LET refs == KeyRefs
        search == SearchSet
        per == [i \in DOMAIN refs |->
                   1 + Cardinality({n \in DOMAIN search :
                                       search[n].id = refs[i].id})]
    IN SumOver(per, Len(refs))

LookedUp ==
    {ktrace[i].arg :
        i \in {j \in DOMAIN ktrace :
                  ktrace[j].op \in {"find_entry", "find_all_entries"}}}

C21_SinglePass ==
    Returned =>
        /\ Len(Decrypts) <= DecryptBound
        /\ Len(ktrace) <= 2 + 2 * Len(KeyRefs) + DecryptBound
        /\ LookedUp \subseteq kmodel.id \cup {KeyRefs[i].id : i \in DOMAIN KeyRefs}

\* Note N references board B and the loaded board B, which has no key yet,
\* references N: the call returned Ok(None) without a single decrypt.
C21_Witness ==
    /\ kret = Some(Ok(None))
    /\ kmodel.id = Some("N")
    /\ kmodel.keys = <<[b |-> "B", k |-> Enc("kB", "k1")]>>
    /\ boards = <<Board(Some("B"), None, BoardKeys)>>
    /\ keychain = <<>>
    /\ Decrypts = <<>>

\* ---------------------------------------------------------------------
\* C22: pause and shutdown are cooperative.  Once a sync:pause or a
\* sync:shutdown event has been passed to the syncers, and until a sync:resume
\* is, no syncer starts a tick (no call of run_sync, so no record is dequeued
\* and no API call begins); a tick in flight is ended by nothing but the
\* return of run_sync, and it always returns, whatever events arrive
\* meanwhile.
Halted == delivered \in {"sync:pause", "sync:shutdown"}

TickStarts(s) == run[s] /= "tick" /\ run'[s] = "tick"

C22_Step ==
    \A s \in Syncers :
       /\ TickStarts(s) => ~Halted
       /\ run[s] = "tick" => run'[s] \in {"tick", "caught", "sleep"}

ShutdownSeen == delivered = "sync:shutdown"

C23_State ==
    /\ invoked["shutdown"] = (IF ShutdownSeen THEN 1 ELSE 0)
    /\ main_pc = "join" => ShutdownSeen /\ Join(joinval) /\ sync_state /= None
    /\ ShutdownSeen /\ main_pc = "idle" =>
          /\ sync_state = None
          /\ IF Join(joinval)
               THEN joined = Syncers /\ \A s \in Syncers : run[s] = "exited"
               ELSE joined = {}

C23_Step ==
    ShutdownSeen => /\ invoked' = invoked
                    /\ sync_config' = sync_config
                    /\ ShutdownSeen'

C23_ShutdownOnceJoinIfTrue ==
    /\ []C23_State
    /\ [][C23_Step]_vars
    /\ (main_pc = "join") ~> (main_pc = "idle" /\ sync_state = None)

\* Shutdown without a join (logout) handled while the file syncer is still
\* inside a tick, and a sync:pause arrives afterwards.
C23_Witness ==
    /\ ShutdownSeen
    /\ joinval = "false"
    /\ sync_state = None
    /\ run["files:outgoing"] = "tick"
    /\ "turtl:sync:pause" \in bindings
    /\ invoked["pause"] + invoked["resume"] < MaxSignals

\* ---------------------------------------------------------------------
\* C24: a failing tick never stops a syncer's polling loop.  An error that
\* run_sync returns is caught and logged and the loop goes on to its sleep;
\* the loop is left only when the quit flag is set.  So a syncer that from
\* some point on stays enabled and is not shut down ticks infinitely often,
\* however many of its ticks fail.
Active == sync_config.enabled /\ ~sync_config.quit

Position(s) == run[s]

C24_Step ==
    \A s \in Syncers :
       /\ Position(s) = "tick" => Position(s)' \in {"tick", "caught", "sleep"}
       /\ Position(s) = "caught" =>
             \/ Position(s)' = "caught"
             \/ Position(s)' = "sleep" /\ s \in errlog'
       /\ Position(s) /= "exited" /\ Position(s)' = "exited" =>
             sync_config.quit

C24_FailingTickKeepsLoop ==
    /\ [][C24_Step]_vars
    /\ \A s \in Syncers : <>[]Active => []<>(Position(s) = "tick")

\* Both syncers have logged a failed tick and are inside another one.
C24_Witness ==
    /\ errlog = Syncers
    /\ \A s \in Syncers : Position(s) = "tick"
    /\ Active

\* ---------------------------------------------------------------------
\* C25: Carrier channels are FIFO.  With one sender and one thread making
\* its receive calls one after the other (rx1 has made no call), the k-th
\* message a receive call returns is the k-th message sent, with the bytes
\* that were passed to send (for send_string: the bytes of the String, which
\* decode to it again); so no call returns a message once all were received.
OneReceiver == ccalls["rx1"] = 0

Unchanged(m) ==
    IF Arg(m.id).op = "send"
      THEN m.bytes = Arg(m.id).bytes
      ELSE /\ m.bytes = as_bytes(Arg(m.id).text)
           /\ from_utf8(m.bytes) = Ok(Arg(m.id).text)

C25_Fifo ==
    OneReceiver =>
       \A k \in DOMAIN received :
          /\ received[k].msg.id = k
          /\ Unchanged(received[k].msg)

\* ---------------------------------------------------------------------
\* C26: each message goes to one recipient.  Under every interleaving of
\* receivers calling recv and recv_nb, a message that was sent once is
\* returned by at most one receive call: no two returns, and no return and a
\* call still holding a popped message, carry the same message, and a message
\* that was handed out is in no queue any more.
MsgIds(seq) == {seq[k].id : k \in DOMAIN seq}

\* The messages receive calls have popped and not yet returned.
Held == {t \in Receivers : cloc[t].res /= None}

HeldId(t) == Unwrap(cloc[t].res).id

InQueues == UNION {MsgIds(heap[q].internal) : q \in DOMAIN heap}

C26_AtMostOneRecipient ==
    /\ \A j, k \in DOMAIN received :
          j /= k => received[j].msg.id /= received[k].msg.id
    /\ \A t, u \in Held : t /= u => HeldId(t) /= HeldId(u)
    /\ \A t \in Held, k \in DOMAIN received : HeldId(t) /= received[k].msg.id
    /\ \A k \in DOMAIN received : received[k].msg.id \notin InQueues
    /\ \A t \in Held : HeldId(t) \notin InQueues

\* Two messages on one queue went to two receivers, one through recv and one
\* through recv_nb.
C26_Witness ==
    /\ Len(received) = 2
    /\ received[1].by /= received[2].by
    /\ {received[1].op, received[2].op} = {"recv", "recv_nb"}
    /\ Len(heap) = 1

\* ---------------------------------------------------------------------
\* C27: a channel is recycled only once it is abandoned.  Whenever a step
\* takes a channel out of the channel map, the queue the channel mapped to
\* holds no undelivered message and no receiver is blocked in recv on it.
Recycled(c) == queues[c] /= None /\ queues'[c] = None

Listening(q) == {t \in Receivers : cpc[t] = "pop" /\ TheQueue(t) = q}

C27_Step ==
    \A c \in Channels :
       Recycled(c) => LET q == Unwrap(queues[c])
                      IN /\ heap[q].internal = <<>>
                         /\ Listening(q) = {}

C27_RecycledOnlyWhenAbandoned == [][C27_Step]_vars

\* ---------------------------------------------------------------------
\* C28: a blocking recv returns once a message is there for it.  A receiver
\* does not stay blocked in recv for ever while a message whose send has
\* returned stays undelivered (no other receiver takes it).
Waiting(t) == cpc[t] = "pop"

\* The messages whose send has returned and that no receive call has popped.
Undelivered == {sent[k] : k \in DOMAIN sent} \cap InQueues

C28_BlockedRecvReturns ==
    \A t \in Receivers : []<>(~Waiting(t) \/ Undelivered = {})

\* ---------------------------------------------------------------------
\* C29: polling with recv_nb leaves nothing behind.  As stated: recv_nb on a
\* channel that does not exist returns None and creates nothing, and a
\* recv_nb that returns None after finding the channel leaves no channel in
\* the map.
Returns(t) == cpc[t] /= "idle" /\ cpc'[t] = "idle"

\* recv_nb returns at once because the channel does not exist.
NbMiss(t) == cpc[t] = "idle" /\ cpc'[t] = "idle" /\ ccalls'[t] /= ccalls[t]

NbReturnsNone(t) == Returns(t) /\ cloc[t].op = "recv_nb" /\ cloc[t].res = None

C29_MissStep ==
    \A t \in Pollers :
       NbMiss(t) => /\ \A c \in Channels : queues[c] = None
                    /\ UNCHANGED <<queues, heap, received>>

C29_Step ==
    /\ C29_MissStep
    /\ \A t \in Pollers :
          NbReturnsNone(t) => \A c \in Channels : queues'[c] = None

C29_PollingLeavesNoChannel == [][C29_Step]_vars

\* Amended: a recv_nb that returns None after finding the channel leaves
\* the queue it polled in the map only if that queue counts a message or a
\* listener at that moment; otherwise the channel is gone when it returns,
\* or another call has given the name a new queue meanwhile.
Abandoned(q) == q.messages <= 0 /\ q.users <= 0

C29_AmendedStep ==
    /\ C29_MissStep
    /\ \A t \in Pollers :
          NbReturnsNone(t) =>
             \A c \in Channels :
                queues'[c] = Some(TheQueue(t)) =>
                   ~Abandoned(heap'[TheQueue(t)])

C29_PollingLeavesNoAbandonedChannel == [][C29_AmendedStep]_vars

\* recv_nb has returned None on a channel that exists because a receiver is
\* blocked in recv on it: the channel is still there.
C29_Witness ==
    /\ ccalls["rx2"] = 1
    /\ cpc["rx2"] = "idle"
    /\ received = <<>>
    /\ sent = <<>>
    /\ cpc["rx1"] = "pop"
    /\ queues["core"] = Some(TheQueue("rx1"))
    /\ Len(heap) = 1

\* ---------------------------------------------------------------------
\* C30: no message is lost.  A message whose send has returned and that no
\* receive call has taken is in a queue that a receiver can still get at:
\* the queue the channel maps to, or at least a queue that a receive call
\* under way holds and has yet to pop from.
Mapped == {Unwrap(queues[c]) : c \in {d \in Channels : queues[d] /= None}}

\* Queues a receive call under way will still pop from.
StillPolled ==
    {TheQueue(t) : t \in {u \in Receivers :
                             cpc[u] \in {"inc_users", "pop", "try_pop"}}}

Stranded ==
    {q \in DOMAIN heap : /\ q \notin Mapped \cup StillPolled
                         /\ MsgIds(heap[q].internal) \cap Undelivered /= {}}

C30_NoMessageLost == Stranded = {}

\* ---------------------------------------------------------------------
\* C31: the counters of a queue are exact between operations.  For every
\* queue, whenever no push, pop or try_pop on it is under way (a receiver
\* blocked in pop on the empty queue apart), `messages` is the number of
\* messages the internal queue holds, `users` is the number of receivers
\* blocked in pop on it, and neither counter is negative.

\* The threads inside Queue::push, Queue::pop or Queue::try_pop on queue q.
InOperation(q) ==
    {t \in Threads :
        /\ TheQueue(t) = q
        /\ cpc[t] \in {"push", "inc_messages", "inc_users", "pop",
                       "dec_users", "dec_messages", "try_pop", "count"}}

\* The receivers blocked in pop on queue q: internal.pop() waits for a message.
BlockedInPop(q) ==
    {t \in Listening(q) : heap[q].internal = <<>>}

CountersExact(q) ==
    /\ heap[q].messages = Len(heap[q].internal)
    /\ heap[q].users = Cardinality(BlockedInPop(q))
    /\ heap[q].messages >= 0
    /\ heap[q].users >= 0

C31_CountersExact ==
    \A q \in DOMAIN heap :
       InOperation(q) = BlockedInPop(q) => CountersExact(q)

\* ---------------------------------------------------------------------
\* C32: login and logout are short-circuiting pipelines.  turtl.db is set
\* only by the step in which the future of login resolves with Ok, User::login
\* having succeeded (the user has an id) and create_user_db too; when the
\* future resolves with the error of either step, turtl.db and the step's
\* other effects are left as they were.  The closure of logout triggers
\* sync:shutdown first (the handler, if bound, shuts a present sync state
\* down) and touches neither user nor turtl.db in that step; only afterwards
\* is the user logged out, and turtl.db is cleared only by a step in which the
\* future of logout resolves with Ok; with the error of User::logout, user
\* and turtl.db stay.
Pending(f) == futures[f] = "pending"

Failed(f) == futures[f] \in {"Err(User::login)", "Err(create_user_db)",
                            "Err(User::logout)"}

C32_LoginStep ==
    /\ turtl_db' /= None /\ turtl_db' /= turtl_db =>
          /\ Pending("login")
          /\ futures'["login"] = "Ok"
          /\ user'.id /= None
    /\ Pending("login") /\ futures'["login"] = "Ok" => turtl_db' /= None
    /\ Pending("login") /\ Failed("login")' =>
          /\ turtl_db' = turtl_db
          /\ futures'["login"] = "Err(User::login)" => user' = user

C32_LogoutStep ==
    /\ futures["logout"] = "none" /\ futures'["logout"] /= "none" =>
          /\ Pending("logout")'
          /\ "turtl:sync:shutdown" \notin bindings'
          /\ "turtl:sync:shutdown" \in bindings /\ sync_state /= None =>
                /\ sync_config'.quit
                /\ invoked'["shutdown"] = invoked["shutdown"] + 1
                /\ sync_state' = None
          /\ UNCHANGED <<user, turtl_db>>
    /\ futures'["logout"] /= futures["logout"] /\ ~Pending("logout")' =>
          Pending("logout")
    /\ turtl_db /= None /\ turtl_db' = None =>
          /\ Pending("logout")
          /\ futures'["logout"] = "Ok"
          /\ user' = NoUser
    /\ Pending("logout") /\ futures'["logout"] = "Ok" => turtl_db' = None
    /\ Pending("logout") /\ Failed("logout")' => UNCHANGED <<user, turtl_db>>

C32_ShortCircuit == [][C32_LoginStep /\ C32_LogoutStep]_vars

\* After a login that opened the database, a logout has shut the running
\* sync system down and then failed in User::logout: the database handle and
\* the user are still there.
C32_Witness ==
    /\ futures["login"] = "Ok"
    /\ futures["logout"] = "Err(User::logout)"
    /\ turtl_db /= None
    /\ user = LoggedIn
    /\ ShutdownSeen
    /\ joinval = "false"

\* ---------------------------------------------------------------------
\* C33: key resolution never deadlocks against a writer of the profile.
\* Every call of find_model_key that has begun returns, and every thread
\* that has asked for the write lock of the profile gets it and lets it go
\* again, whichever way the threads interleave.
Completed(t) == PcOf(t) = "idle"

C33_NoDeadlock ==
    \A t \in ProfileThreads : (~Completed(t)) ~> Completed(t)

\* ---------------------------------------------------------------------
\* C34: the work pool always has a worker.  For every CPU count the host
\* reports (1 or more), Turtl::new creates the `work` pool, with one worker at
\* least, and every unit of work handed to the pool resolves in the end, with
\* a value or with a typed error.
WorkPool == pools["work"]

HandleResolved(k) == k \in DOMAIN spawned /\ spawned[k].res \in {"Ok", "Err"}

Submitted(k) == k \in DOMAIN spawned /\ spawned[k].pool = "work"

C34_WorkPoolHasWorker ==
    /\ <>(WorkPool.state = "pool")
    /\ [](WorkPool.state /= "none" =>
             WorkPool.state = "pool" /\ WorkPool.workers >= 1)
    /\ \A k \in 1..MaxTasks : Submitted(k) ~> HandleResolved(k)

====
